---- MODULE Spec2Model ----
(***************************************************************************)
(* Credential and session lifecycle of the auth service:                   *)
(* invitation-gated registration, password login with lockout, password    *)
(* reset and the access/refresh JWT pair.                                  *)
(*                                                                         *)
(* The credential store (the users and invitations tables) is the only     *)
(* shared state.  Every request handler is a process that runs from one    *)
(* await on the store to the next; the in-memory Sequelize instance it     *)
(* holds between two awaits is its snapshot `snap`.  instance.save()       *)
(* writes only the attributes whose value differs from the one that was    *)
(* loaded (Sequelize's changed() set), by primary key.                     *)
(*                                                                         *)
(* Time is a clock in units of 15 minutes; new Date() / Date.now() read    *)
(* the clock at the step in which the code evaluates them.                 *)
(***************************************************************************)
EXTENDS Integers, Sequences, FiniteSets, TLC

(***************************************************************************)
(* Bounds of the model                                                     *)
(***************************************************************************)
MaxTime == 3
MaxRequests == 2
MaxConcTime == 1
MaxConcRequests == 2
MaxTokenOps == 3
MaxNotifRequests == 2

(***************************************************************************)
(* Program constants, in clock units of 15 minutes                         *)
(***************************************************************************)
LockThreshold == 5
LockCooldown == 2
ResetExpiry == 4
AccessExpiry == 1
RefreshExpiry == 3
AdminInvitationExpiry == 2
UserInvitationExpiry == 3

AdminEmail == "admin@x.com"
Issuer == "cancer-data-platform"
Audience == "cancer-data-platform-api"

(***************************************************************************)
(* Input domains                                                           *)
(***************************************************************************)
Procs == {1, 2}
Keys == {"k1", "k2"}
InputEmails == {"admin@x.com", "Admin@X.com", "b@x.com"}
Passwords == {"Pw1", "Pw2"}
Roles == {"admin", "user"}
\* Register: the controller passes no email (""); a direct caller may
RegisterEmails == {"", "Admin@X.com"}
RegisterPasswords == {"Pw1"}
\* The reset token of the seeded store: one an earlier ForgotPassword issued
SeededResetToken == -2
\* userData.role of a Register request: absent (""), or asked for
RegisterRoles == {"", "admin"}

\* A nullable column or attribute: <<>> is null, <<v>> holds v.
Null == <<>>
Some(v) == <<v>>
IsNull(o) == o = <<>>
Val(o) == o[1]

Range(s) == {s[i] : i \in DOMAIN s}

\* String.prototype.toLowerCase on the addresses of InputEmails
ToLowerCase(e) == IF e = "Admin@X.com" THEN "admin@x.com" ELSE e

\* bcrypt.hash in the beforeSave hook / bcrypt.compare in comparePassword
BcryptHash(p) == [alg |-> "bcrypt", plain |-> p]
BcryptCompare(candidate, hash) == hash = BcryptHash(candidate)

VARIABLES
  now,          \* the wall clock
  config,       \* jwtConfig.secret and jwtConfig.refreshSecret (process.env)
  users,        \* users table, in insertion order; id = position
  invitations,  \* invitations table, in insertion order; id = position
  procs,        \* request handlers in flight; rid numbers the request and is
                \* the random identifier (uuid, reset token) it draws
  mode,         \* "seq": one request at a time; "conc": interleaved; "token": token service alone
  reqCount,     \* requests started so far
  regOk,        \* log: invitation tokens of the Register calls that returned a user
  acceptLog,    \* log: ids of the invitations whose acceptance was written
  resetOk,      \* log: reset tokens of the ResetPassword calls that succeeded
  held,         \* the tokens clients hold: every pair issued so far (token
                \* service alone: the tokens now put to verification)
  verified,     \* outcome of the last verifyAccessToken / verifyRefreshToken call
  notifications,\* notifications table of the notification service; id = position
  retryLog      \* log: the sends the retry loop attempted and how each ended

vars == <<now, config, users, invitations, procs, mode, reqCount,
          regOk, acceptLog, resetOk, held, verified, notifications, retryLog>>

(***************************************************************************)
(* Token service (token.service.js over jsonwebtoken)                      *)
(***************************************************************************)
\* jwt.sign(payload, key, {issuer, audience, expiresIn})
JwtSign(payload, key, expiresIn, t) ==
  [sub |-> payload.sub, email |-> payload.email, role |-> payload.role,
   type |-> payload.type, jti |-> payload.jti, iss |-> Issuer, aud |-> Audience,
   iat |-> t, exp |-> t + expiresIn, sig |-> key]

\* jwt.verify(token, key, {issuer, audience}): signature, then expiry,
\* then audience, then issuer
JwtVerify(token, key, t) ==
  IF token.sig # key THEN [ok |-> FALSE, name |-> "JsonWebTokenError"]
  ELSE IF t >= token.exp THEN [ok |-> FALSE, name |-> "TokenExpiredError"]
  ELSE IF token.aud # Audience THEN [ok |-> FALSE, name |-> "JsonWebTokenError"]
  ELSE IF token.iss # Issuer THEN [ok |-> FALSE, name |-> "JsonWebTokenError"]
  ELSE [ok |-> TRUE, name |-> "none"]

GenerateAccessToken(user, cfg, t) ==
  JwtSign([sub |-> user.id, email |-> Some(user.email), role |-> Some(user.role),
           type |-> "access", jti |-> Null],
          cfg.secret, AccessExpiry, t)

GenerateRefreshToken_AccessSecret(user, cfg, t, jti) ==
  JwtSign([sub |-> user.id, email |-> Null, role |-> Null,
           type |-> "refresh", jti |-> Some(jti)],
          cfg.secret, RefreshExpiry, t)

GenerateRefreshToken(user, cfg, t, jti) ==
  JwtSign([sub |-> user.id, email |-> Null, role |-> Null,
           type |-> "refresh", jti |-> Some(jti)],
          cfg.refreshSecret, RefreshExpiry, t)

\* generateTokens draws one uuid (the refresh token's jti)
GenerateTokens(user, cfg, t, jti) ==
  [accessToken |-> GenerateAccessToken(user, cfg, t),
   refreshToken |-> GenerateRefreshToken(user, cfg, t, jti)]

\* The decoded payload, or the ApiError thrown
PayloadFields == {"sub", "email", "role", "type", "jti", "iss", "aud", "iat", "exp"}
Decoded(token) == [ok |-> TRUE, kind |-> "ok", msg |-> "",
                   claims |-> Some([f \in PayloadFields |-> token[f]])]
Thrown(kind, msg) == [ok |-> FALSE, kind |-> kind, msg |-> msg, claims |-> Null]

VerifyAccessToken(token, cfg, t) ==
  LET r == JwtVerify(token, cfg.secret, t) IN
  IF r.ok THEN Decoded(token)
  ELSE IF r.name = "TokenExpiredError" THEN Thrown("Unauthorized", "Access token expired")
  ELSE Thrown("Unauthorized", "Invalid access token")

VerifyRefreshToken(token, cfg, t) ==
  LET r == JwtVerify(token, cfg.refreshSecret, t) IN
  IF r.ok THEN Decoded(token)
  ELSE IF r.name = "TokenExpiredError" THEN Thrown("Unauthorized", "Refresh token expired")
  ELSE Thrown("Unauthorized", "Invalid refresh token")

\* held: each token with where it came from (issuePair for a user, or the client)
Issued(u, pair) ==
  {[token |-> pair.accessToken, origin |-> "generateAccessToken", user |-> Some(u)],
   [token |-> pair.refreshToken, origin |-> "generateRefreshToken", user |-> Some(u)]}
Presented(tk) == [token |-> tk, origin |-> "client", user |-> Null]

\* What the token claims say about the user a pair was issued for
TokenSubject(u) == [id |-> u.id, email |-> u.email, role |-> u.role]

(***************************************************************************)
(* User and Invitation models                                              *)
(***************************************************************************)
\* User.create({email, password, role, isActive: true}); the other columns
\* take their defaults
NewUser(id, email, password, role) ==
  [id |-> id, email |-> email, password |-> BcryptHash(password), role |-> role,
   isActive |-> TRUE, lastLogin |-> Null, failedLoginAttempts |-> 0,
   lockedUntil |-> Null, passwordResetToken |-> Null, passwordResetExpires |-> Null]

\* Invitation.create({email, role, expiresAt, invitedById}); token defaults to a uuid
NewInvitation(id, email, token, role, expiresAt, invitedById) ==
  [id |-> id, email |-> email, token |-> token, role |-> role,
   expiresAt |-> expiresAt, invitedById |-> invitedById,
   isAccepted |-> FALSE, acceptedAt |-> Null]

ResetPasswordFields_KeepsExpiry(u, newPassword) ==
  [u EXCEPT !.password = BcryptHash(newPassword), !.passwordResetToken = Null]

ResetPasswordFields_KeepsToken(u, newPassword) ==
  [u EXCEPT !.password = BcryptHash(newPassword)]

ResetPasswordFields_ClearsLock(u, newPassword) ==
  [u EXCEPT !.password = BcryptHash(newPassword),
            !.passwordResetToken = Null, !.passwordResetExpires = Null,
            !.failedLoginAttempts = 0, !.lockedUntil = Null]

\* resetPassword's assignments to the instance before save(); the
\* beforeSave hook hashes the new password
ResetPasswordFields(u, newPassword) ==
  [u EXCEPT !.password = BcryptHash(newPassword),
            !.passwordResetToken = Null, !.passwordResetExpires = Null]

IsAccountLocked_Never(u, t) == FALSE

IsAccountLocked_Flipped(u, t) == ~IsNull(u.lockedUntil) /\ Val(u.lockedUntil) < t

IsAccountLocked(u, t) == ~IsNull(u.lockedUntil) /\ Val(u.lockedUntil) > t

RegisterFailedLogin_LocksLate(u, t) ==
  LET n == u.failedLoginAttempts + 1 IN
  [u EXCEPT !.failedLoginAttempts = n,
            !.lockedUntil = IF n > LockThreshold THEN Some(t + LockCooldown) ELSE @]

RegisterFailedLogin_LocksOnce(u, t) ==
  LET n == u.failedLoginAttempts + 1 IN
  [u EXCEPT !.failedLoginAttempts = n,
            !.lockedUntil = IF n = LockThreshold THEN Some(t + LockCooldown) ELSE @]

\* The in-memory effect of registerFailedLogin before save()
RegisterFailedLogin(u, t) ==
  LET n == u.failedLoginAttempts + 1 IN
  [u EXCEPT !.failedLoginAttempts = n,
            !.lockedUntil = IF n >= LockThreshold THEN Some(t + LockCooldown) ELSE @]

ResetFailedLoginAttempts_KeepsLock(u, t) ==
  [u EXCEPT !.failedLoginAttempts = 0, !.lastLogin = Some(t)]

\* The in-memory effect of resetFailedLoginAttempts before save()
ResetFailedLoginAttempts(u, t) ==
  [u EXCEPT !.failedLoginAttempts = 0, !.lockedUntil = Null, !.lastLogin = Some(t)]

\* instance.save(): UPDATE ... SET <changed attributes> WHERE id = pk.
\* loaded is the row as the instance read it, inst the instance now,
\* row the row as the store holds it.
UserFields == {"email", "password", "role", "isActive", "lastLogin",
               "failedLoginAttempts", "lockedUntil", "passwordResetToken",
               "passwordResetExpires"}
SaveUser(row, loaded, inst) ==
  [f \in DOMAIN row |->
     IF f \in UserFields /\ inst[f] # loaded[f] THEN inst[f] ELSE row[f]]

InvitationFields == {"email", "token", "role", "expiresAt", "invitedById",
                     "isAccepted", "acceptedAt"}
SaveInvitation_DropsAcceptedAt(row, loaded, inst) ==
  [f \in DOMAIN row |->
     IF f \in InvitationFields \ {"acceptedAt"} /\ inst[f] # loaded[f]
     THEN inst[f] ELSE row[f]]

SaveInvitation(row, loaded, inst) ==
  [f \in DOMAIN row |->
     IF f \in InvitationFields /\ inst[f] # loaded[f] THEN inst[f] ELSE row[f]]

\* findOne({where}): the first row that satisfies the predicate, or null
FindUserByEmail(us, email) ==
  LET m == {i \in DOMAIN us : us[i].email = email} IN
  IF m = {} THEN Null ELSE Some(us[CHOOSE i \in m : \A j \in m : i <= j])

FindUserByResetToken_IgnoresExpiry(us, token, t) ==
  LET m == {i \in DOMAIN us : us[i].passwordResetToken = Some(token)} IN
  IF m = {} THEN Null ELSE Some(us[CHOOSE i \in m : \A j \in m : i <= j])

FindUserByResetToken(us, token, t) ==
  LET m == {i \in DOMAIN us :
              /\ us[i].passwordResetToken = Some(token)
              /\ ~IsNull(us[i].passwordResetExpires)
              /\ Val(us[i].passwordResetExpires) > t} IN
  IF m = {} THEN Null ELSE Some(us[CHOOSE i \in m : \A j \in m : i <= j])

FindAdmin_None(us) == Null

FindAdmin(us) ==
  LET m == {i \in DOMAIN us : us[i].role = "admin"} IN
  IF m = {} THEN Null ELSE Some(us[CHOOSE i \in m : \A j \in m : i <= j])

IsActiveInvitation_IgnoresAccepted(inv, t) == inv.expiresAt > t

IsActiveInvitation(inv, t) == ~inv.isAccepted /\ inv.expiresAt > t

FindActiveByToken_AcceptsAtExpiry(invs, token, t) ==
  LET m == {i \in DOMAIN invs :
              invs[i].token = token /\ ~invs[i].isAccepted /\ invs[i].expiresAt >= t} IN
  IF m = {} THEN Null ELSE Some(invs[CHOOSE i \in m : \A j \in m : i <= j])

FindActiveByToken(invs, token, t) ==
  LET m == {i \in DOMAIN invs : invs[i].token = token /\ IsActiveInvitation(invs[i], t)} IN
  IF m = {} THEN Null ELSE Some(invs[CHOOSE i \in m : \A j \in m : i <= j])

FindActiveByEmail_ExpiredOnly(invs, email, t) ==
  LET m == {i \in DOMAIN invs :
              invs[i].email = email /\ ~invs[i].isAccepted /\ invs[i].expiresAt < t} IN
  IF m = {} THEN Null ELSE Some(invs[CHOOSE i \in m : \A j \in m : i <= j])

FindActiveByEmail(invs, email, t) ==
  LET m == {i \in DOMAIN invs : invs[i].email = email /\ IsActiveInvitation(invs[i], t)} IN
  IF m = {} THEN Null ELSE Some(invs[CHOOSE i \in m : \A j \in m : i <= j])

(***************************************************************************)
(* Request handlers                                                        *)
(***************************************************************************)
\* tokens: the pair a handler returns; data: any other payload it returns
NoResult == [kind |-> "none", msg |-> "", tokens |-> Null, data |-> Null]
Fail(kind, msg) == [kind |-> kind, msg |-> msg, tokens |-> Null, data |-> Null]
Ok(tokens) == [kind |-> "ok", msg |-> "", tokens |-> tokens, data |-> Null]
OkData(data) == [kind |-> "ok", msg |-> "", tokens |-> Null, data |-> Some(data)]

\* email "" stands for an absent email, token 0 for a token the service never issued
NoArg == [email |-> "", password |-> "", token |-> 0, role |-> "", by |-> 0,
          target |-> 0, isActive |-> TRUE, newPassword |-> "", jwt |-> Null,
          scheme |-> "", type |-> "", maxRetries |-> 0]
\* pc: idle, done (returned or thrown), or the await the handler is suspended at
\* batch and count are the retry loop's failedNotifications still to be
\* tried and its successCount
IdleProc == [op |-> "none", pc |-> "idle", rid |-> 0, arg |-> NoArg, snap |-> Null,
             loaded |-> Null, user |-> Null, res |-> NoResult,
             batch |-> <<>>, count |-> 0]

Resting(p) == procs[p].pc \in {"idle", "done"}

\* A request may start on process p: in sequential mode there is one
\* process and it handles one request at a time; otherwise the first free
\* process takes it (the processes are interchangeable).
CanStart(p) ==
  /\ mode \in {"seq", "conc", "notif"}
  /\ Resting(p)
  /\ mode = "seq" => p = 1
  /\ \A q \in Procs : q < p => ~Resting(q)
  /\ reqCount < (IF mode = "seq" THEN MaxRequests
                 ELSE IF mode = "conc" THEN MaxConcRequests ELSE MaxNotifRequests)

\* A request arrives: rid numbers it
Arrive(op, arg) ==
  [IdleProc EXCEPT !.op = op, !.pc = "run", !.rid = reqCount + 1, !.arg = arg]

\* The handler returns or throws: its instances are dropped.  On record
\* stay the arguments and loaded, the row as the handler read it.
Done(req, res) ==
  [req EXCEPT !.pc = "done", !.res = res, !.rid = 0, !.snap = Null, !.user = Null]

Finish(p, res) == [procs EXCEPT ![p] = Done(procs[p], res)]

\* In sequential mode a handler runs to its end at one instant
Tick ==
  /\ now < (IF mode = "conc" THEN MaxConcTime ELSE MaxTime)
  /\ mode = "seq" => \A p \in Procs : Resting(p)
  /\ now' = now + 1
  /\ UNCHANGED <<config, users, invitations, procs, mode, reqCount,
                 regOk, acceptLog, resetOk, held, verified,
                 notifications, retryLog>>

------------------------------------------------------------------------------
\* AuthService.login(email, password)

\* The error login throws when findOne finds no user
UnknownEmailError == Fail("Unauthorized", "Invalid email or password")

WrongPasswordError_Specific == Fail("Unauthorized", "Wrong password")

\* The error login throws after registerFailedLogin
WrongPasswordError == Fail("Unauthorized", "Invalid email or password")

\* The request arrives and runs to its first suspension: findOne, the lock
\* check and comparePassword on the loaded instance
LoginFind(p) ==
  /\ CanStart(p)
  /\ \E e \in InputEmails, pw \in Passwords :
       LET req == Arrive("login", [NoArg EXCEPT !.email = e, !.password = pw])
           found == FindUserByEmail(users, ToLowerCase(e)) IN
       procs' = [procs EXCEPT ![p] =
         IF IsNull(found)
         THEN Done(req, UnknownEmailError)
         ELSE IF IsAccountLocked(Val(found), now)
         THEN Done([req EXCEPT !.loaded = found], Fail("Unauthorized", "Account is locked"))
         ELSE [req EXCEPT !.snap = found, !.loaded = found,
                 !.pc = IF BcryptCompare(pw, Val(found).password)
                        THEN "login_reset" ELSE "login_fail"]]
  /\ reqCount' = reqCount + 1
  /\ UNCHANGED <<now, config, users, invitations, mode,
                 regOk, acceptLog, resetOk, held, verified,
                 notifications, retryLog>>

\* user.registerFailedLogin(), then the handler throws
LoginFail(p) ==
  /\ procs[p].pc = "login_fail"
  /\ LET loaded == Val(procs[p].loaded)
         inst == RegisterFailedLogin(Val(procs[p].snap), now) IN
     /\ users' = [users EXCEPT ![loaded.id] = SaveUser(@, loaded, inst)]
     /\ procs' = Finish(p, WrongPasswordError)
  /\ UNCHANGED <<now, config, invitations, mode, reqCount,
                 regOk, acceptLog, resetOk, held, verified,
                 notifications, retryLog>>

\* user.resetFailedLoginAttempts(), then generateTokens(user)
LoginReset(p) ==
  /\ procs[p].pc = "login_reset"
  /\ LET loaded == Val(procs[p].loaded)
         inst == ResetFailedLoginAttempts(Val(procs[p].snap), now)
         pair == GenerateTokens(inst, config, now, procs[p].rid) IN
     /\ users' = [users EXCEPT ![loaded.id] = SaveUser(@, loaded, inst)]
     /\ procs' = Finish(p, Ok(Some(pair)))
     /\ held' = held \cup Issued(TokenSubject(inst), pair)
  /\ UNCHANGED <<now, config, invitations, mode, reqCount,
                 regOk, acceptLog, resetOk, verified,
                 notifications, retryLog>>

------------------------------------------------------------------------------
\* AuthService.register(token, userData)

InvitationTokens == {invitations[i].token : i \in DOMAIN invitations}

EmailMatches_Always(supplied, invEmail) == TRUE

\* !(userData.email && userData.email.toLowerCase() !== invitation.email)
EmailMatches(supplied, invEmail) ==
  supplied = "" \/ ToLowerCase(supplied) = invEmail

RegisterUserRow_CallerRole(inv, userData, id) ==
  NewUser(id, inv.email, userData.password,
          IF userData.role = "" THEN inv.role ELSE userData.role)

\* The attributes register passes to User.create: email and role are
\* the invitation's, isActive is true
RegisterUserRow(inv, userData, id) ==
  NewUser(id, inv.email, userData.password, inv.role)

\* The request arrives: Invitation.findActiveByToken and the email check
RegisterFind(p) ==
  /\ CanStart(p)
  /\ \E tk \in InvitationTokens \cup {0}, e \in RegisterEmails,
        pw \in RegisterPasswords, r \in RegisterRoles :
       LET req == Arrive("register", [NoArg EXCEPT !.token = tk, !.email = e,
                                                   !.password = pw, !.role = r])
           found == FindActiveByToken(invitations, tk, now) IN
       procs' = [procs EXCEPT ![p] =
         IF IsNull(found)
         THEN Done(req, Fail("Unauthorized", "Invalid or expired invitation token"))
         ELSE IF ~EmailMatches(e, Val(found).email)
         THEN Done([req EXCEPT !.loaded = found],
                   Fail("Forbidden", "Email does not match invitation"))
         ELSE [req EXCEPT !.snap = found, !.loaded = found, !.pc = "register_create"]]
  /\ reqCount' = reqCount + 1
  /\ UNCHANGED <<now, config, users, invitations, mode,
                 regOk, acceptLog, resetOk, held, verified,
                 notifications, retryLog>>

InsertUser_NoUniqueIndex(us, row) == [ok |-> TRUE, table |-> Append(us, row)]

\* INSERT INTO users: the unique index on users.email rejects a second
\* row with the same address
InsertUser(us, row) ==
  IF \E i \in DOMAIN us : us[i].email = row.email
  THEN [ok |-> FALSE, table |-> us]
  ELSE [ok |-> TRUE, table |-> Append(us, row)]

\* User.create(...); then isAccepted and acceptedAt are set on the
\* invitation instance.  storeUp = FALSE: the INSERT is lost with the
\* database connection.
RegisterCreate(p) ==
  /\ procs[p].pc = "register_create"
  /\ \E storeUp \in BOOLEAN :
       LET inv == Val(procs[p].snap)
           row == RegisterUserRow(inv, procs[p].arg, Len(users) + 1)
           ins == InsertUser(users, row) IN
       IF storeUp /\ ins.ok
       THEN /\ users' = ins.table
            /\ procs' = [procs EXCEPT
                 ![p].user = Some(row),
                 ![p].snap = Some([inv EXCEPT !.isAccepted = TRUE,
                                              !.acceptedAt = Some(now)]),
                 ![p].pc = "register_accept"]
       ELSE /\ users' = users
            /\ procs' = Finish(p, Fail("Internal", "Registration failed"))
  /\ UNCHANGED <<now, config, invitations, mode, reqCount,
                 regOk, acceptLog, resetOk, held, verified,
                 notifications, retryLog>>

\* invitation.save(), then generateTokens(user)
RegisterAccept(p) ==
  /\ procs[p].pc = "register_accept"
  /\ \E storeUp \in BOOLEAN :
       LET loaded == Val(procs[p].loaded)
           inst == Val(procs[p].snap)
           pair == GenerateTokens(Val(procs[p].user), config, now, procs[p].rid) IN
       IF storeUp
       THEN /\ invitations' = [invitations EXCEPT
                                 ![loaded.id] = SaveInvitation(@, loaded, inst)]
            /\ acceptLog' = Append(acceptLog, loaded.id)
            /\ regOk' = Append(regOk, procs[p].arg.token)
            /\ procs' = Finish(p, Ok(Some(pair)))
            /\ held' = held \cup Issued(TokenSubject(Val(procs[p].user)), pair)
       ELSE /\ procs' = Finish(p, Fail("Internal", "Registration failed"))
            /\ UNCHANGED <<invitations, acceptLog, regOk, held>>
  /\ UNCHANGED <<now, config, users, mode, reqCount, resetOk, verified,
                 notifications, retryLog>>

------------------------------------------------------------------------------
\* AdminService.initializeAdmin(), run at every server start

\* The server starts: checkAdminExists()
InitAdminCheck(p) ==
  /\ CanStart(p)
  /\ LET req == Arrive("initAdmin", NoArg) IN
     procs' = [procs EXCEPT ![p] =
       IF IsNull(FindAdmin(users))
       THEN [req EXCEPT !.pc = "admin_find"]
       ELSE Done(req, Ok(Null))]
  /\ reqCount' = reqCount + 1
  /\ UNCHANGED <<now, config, users, invitations, mode,
                 regOk, acceptLog, resetOk, held, verified,
                 notifications, retryLog>>

\* createAdminInvitation(): the lookup of an active invitation
InitAdminFind(p) ==
  /\ procs[p].pc = "admin_find"
  /\ LET found == FindActiveByEmail(invitations, AdminEmail, now) IN
     procs' = IF IsNull(found)
              THEN [procs EXCEPT ![p].pc = "admin_create",
                      ![p].snap = Some(NewInvitation(0, AdminEmail, 0, "admin",
                                                     now + AdminInvitationExpiry, Null))]
              ELSE Finish(p, Ok(Null))
  /\ UNCHANGED <<now, config, users, invitations, mode, reqCount,
                 regOk, acceptLog, resetOk, held, verified,
                 notifications, retryLog>>

\* createAdminInvitation(): Invitation.create, then sendAdminInvitation,
\* which swallows every dispatch error.  storeUp = FALSE: the INSERT
\* fails; initializeAdmin logs the error and returns.
InitAdminCreate(p) ==
  /\ procs[p].pc = "admin_create"
  /\ \E storeUp \in BOOLEAN :
       LET inst == Val(procs[p].snap)
           row == [inst EXCEPT !.id = Len(invitations) + 1, !.token = procs[p].rid] IN
       /\ invitations' = IF storeUp THEN Append(invitations, row) ELSE invitations
       /\ procs' = Finish(p, Ok(Null))
  /\ UNCHANGED <<now, config, users, mode, reqCount,
                 regOk, acceptLog, resetOk, held, verified,
                 notifications, retryLog>>

------------------------------------------------------------------------------
\* UserService.inviteUser(invitationData, invitedBy), reached through the
\* authenticate middleware and the controller's admin check

IsAuthenticatedAdmin(id) ==
  /\ id \in DOMAIN users
  /\ users[id].isActive
  /\ users[id].role = "admin"

MayInvite_Anyone(u) == TRUE

\* The inviteUser controller's check: !(req.user.role !== 'admin')
MayInvite(u) == u.role = "admin"

\* The request arrives from an authenticated user; the controller refuses
\* anyone but an admin; then User.findOne({where: {email}})
InviteFindUser(p) ==
  /\ CanStart(p)
  /\ \E e \in InputEmails, r \in Roles, by \in DOMAIN users :
       /\ users[by].isActive
       /\ LET req == Arrive("invite", [NoArg EXCEPT !.email = e, !.role = r, !.by = by]) IN
          procs' = [procs EXCEPT ![p] =
            IF ~MayInvite(users[by])
            THEN Done(req, Fail("Forbidden", "Only admin users can invite new users"))
            ELSE IF IsNull(FindUserByEmail(users, ToLowerCase(e)))
            THEN [req EXCEPT !.pc = "invite_inv"]
            ELSE Done(req, Fail("Conflict", "User already exists"))]
  /\ reqCount' = reqCount + 1
  /\ UNCHANGED <<now, config, users, invitations, mode,
                 regOk, acceptLog, resetOk, held, verified,
                 notifications, retryLog>>

\* Invitation.findActiveByEmail; expiresAt is computed before the create
InviteFindInvitation(p) ==
  /\ procs[p].pc = "invite_inv"
  /\ LET email == ToLowerCase(procs[p].arg.email) IN
     procs' = IF IsNull(FindActiveByEmail(invitations, email, now))
              THEN [procs EXCEPT ![p].pc = "invite_create",
                      ![p].snap = Some(NewInvitation(0, email, 0, procs[p].arg.role,
                                                     now + UserInvitationExpiry,
                                                     Some(procs[p].arg.by)))]
              ELSE Finish(p, Fail("Conflict", "Active invitation already exists"))
  /\ UNCHANGED <<now, config, users, invitations, mode, reqCount,
                 regOk, acceptLog, resetOk, held, verified,
                 notifications, retryLog>>

\* Invitation.create
InviteCreate(p) ==
  /\ procs[p].pc = "invite_create"
  /\ LET inst == Val(procs[p].snap)
         row == [inst EXCEPT !.id = Len(invitations) + 1, !.token = procs[p].rid] IN
     /\ invitations' = Append(invitations, row)
     /\ procs' = [procs EXCEPT ![p].snap = Some(row), ![p].pc = "invite_send"]
  /\ UNCHANGED <<now, config, users, mode, reqCount,
                 regOk, acceptLog, resetOk, held, verified,
                 notifications, retryLog>>

\* sendUserInvitation: the POST to the notification service
InviteSend(p) ==
  /\ procs[p].pc = "invite_send"
  /\ \E delivered \in BOOLEAN :
       procs' = IF delivered
                THEN Finish(p, Ok(Null))
                ELSE Finish(p, Fail("Internal", "Failed to send user invitation"))
  /\ UNCHANGED <<now, config, users, invitations, mode, reqCount,
                 regOk, acceptLog, resetOk, held, verified,
                 notifications, retryLog>>

------------------------------------------------------------------------------
\* AuthService.sendPasswordResetLink(email)

ForgotFields_KeepsFirstToken(u, token, t) ==
  [u EXCEPT !.passwordResetToken = IF IsNull(@) THEN Some(token) ELSE @,
            !.passwordResetExpires = Some(t + ResetExpiry)]

\* sendPasswordResetLink's assignments to the instance before save()
ForgotFields(u, token, t) ==
  [u EXCEPT !.passwordResetToken = Some(token),
            !.passwordResetExpires = Some(t + ResetExpiry)]

\* The request arrives: User.findOne; the reset token and its expiry are
\* set on the instance
ForgotFind(p) ==
  /\ CanStart(p)
  /\ \E e \in InputEmails :
       LET req == Arrive("forgot", [NoArg EXCEPT !.email = e])
           found == FindUserByEmail(users, ToLowerCase(e)) IN
       procs' = [procs EXCEPT ![p] =
         IF IsNull(found)
         THEN Done(req, Ok(Null))
         ELSE [req EXCEPT
                 !.loaded = found,
                 !.snap = Some(ForgotFields(Val(found), req.rid, now)),
                 !.pc = "forgot_save"]]
  /\ reqCount' = reqCount + 1
  /\ UNCHANGED <<now, config, users, invitations, mode,
                 regOk, acceptLog, resetOk, held, verified,
                 notifications, retryLog>>

\* user.save()
ForgotSave(p) ==
  /\ procs[p].pc = "forgot_save"
  /\ LET loaded == Val(procs[p].loaded)
         inst == Val(procs[p].snap) IN
     users' = [users EXCEPT ![loaded.id] = SaveUser(@, loaded, inst)]
  /\ procs' = [procs EXCEPT ![p].pc = "forgot_send"]
  /\ UNCHANGED <<now, config, invitations, mode, reqCount,
                 regOk, acceptLog, resetOk, held, verified,
                 notifications, retryLog>>

\* The POST to the notification service; its failure is rethrown
ForgotSend(p) ==
  /\ procs[p].pc = "forgot_send"
  /\ \E delivered \in BOOLEAN :
       procs' = IF delivered
                THEN Finish(p, Ok(Null))
                ELSE Finish(p, Fail("Internal", "Failed to send password reset email"))
  /\ UNCHANGED <<now, config, users, invitations, mode, reqCount,
                 regOk, acceptLog, resetOk, held, verified,
                 notifications, retryLog>>

------------------------------------------------------------------------------
\* AuthService.resetPassword(token, newPassword)

StoredResetTokens ==
  {Val(users[i].passwordResetToken) : i \in {j \in DOMAIN users :
                                                ~IsNull(users[j].passwordResetToken)}}

\* The request arrives:
\* User.findOne({passwordResetToken: token, passwordResetExpires > now})
ResetFind(p) ==
  /\ CanStart(p)
  /\ \E tk \in StoredResetTokens \cup Range(resetOk) \cup {SeededResetToken, 0},
        pw \in Passwords :
       LET req == Arrive("reset", [NoArg EXCEPT !.token = tk, !.password = pw])
           found == FindUserByResetToken(users, tk, now) IN
       procs' = [procs EXCEPT ![p] =
         IF IsNull(found)
         THEN Done(req, Fail("Unauthorized", "Invalid or expired reset token"))
         ELSE [req EXCEPT !.loaded = found,
                          !.snap = Some(ResetPasswordFields(Val(found), pw)),
                          !.pc = "reset_save"]]
  /\ reqCount' = reqCount + 1
  /\ UNCHANGED <<now, config, users, invitations, mode,
                 regOk, acceptLog, resetOk, held, verified,
                 notifications, retryLog>>

\* user.save(): the plain password always differs from the loaded hash,
\* so the password column is always written
ResetSave(p) ==
  /\ procs[p].pc = "reset_save"
  /\ LET loaded == Val(procs[p].loaded)
         inst == Val(procs[p].snap) IN
     users' = [users EXCEPT ![loaded.id] =
                 [SaveUser(@, loaded, inst) EXCEPT !.password = inst.password]]
  /\ resetOk' = Append(resetOk, procs[p].arg.token)
  /\ procs' = Finish(p, Ok(Null))
  /\ UNCHANGED <<now, config, invitations, mode, reqCount,
                 regOk, acceptLog, held, verified,
                 notifications, retryLog>>

------------------------------------------------------------------------------
\* UserService.updateUser(userId, {isActive}) through the admin-only
\* controller, and UserService.changePassword(req.user.id, current, new)

FindUserByPk_FirstRow(us, id) == IF us = <<>> THEN Null ELSE Some(us[1])

FindUserByPk(us, id) == IF id \in DOMAIN us THEN Some(us[id]) ELSE Null

\* The authenticate middleware let the request through as user id
IsAuthenticated(id) == id \in DOMAIN users /\ users[id].isActive

\* The request arrives from an admin: getUserById, then the allowed
\* fields are set on the instance
UpdateUserFind(p) ==
  /\ CanStart(p)
  /\ \E by \in DOMAIN users, id \in 1..(Len(users) + 1), a \in BOOLEAN :
       /\ IsAuthenticatedAdmin(by)
       /\ LET req == Arrive("updateUser", [NoArg EXCEPT !.by = by, !.target = id,
                                                        !.isActive = a])
              found == FindUserByPk(users, id) IN
          procs' = [procs EXCEPT ![p] =
            IF IsNull(found)
            THEN Done(req, Fail("NotFound", "User not found"))
            ELSE [req EXCEPT !.loaded = found,
                             !.snap = Some([Val(found) EXCEPT !.isActive = a]),
                             !.pc = "update_save"]]
  /\ reqCount' = reqCount + 1
  /\ UNCHANGED <<now, config, users, invitations, mode,
                 regOk, acceptLog, resetOk, held, verified,
                 notifications, retryLog>>

\* user.save()
UpdateUserSave(p) ==
  /\ procs[p].pc = "update_save"
  /\ LET loaded == Val(procs[p].loaded)
         inst == Val(procs[p].snap) IN
     users' = [users EXCEPT ![loaded.id] = SaveUser(@, loaded, inst)]
  /\ procs' = Finish(p, Ok(Null))
  /\ UNCHANGED <<now, config, invitations, mode, reqCount,
                 regOk, acceptLog, resetOk, held, verified,
                 notifications, retryLog>>

\* The request arrives from a signed-in user: findByPk and comparePassword
ChangePasswordFind(p) ==
  /\ CanStart(p)
  /\ \E by \in DOMAIN users, cur \in Passwords, new \in Passwords :
       /\ IsAuthenticated(by)
       /\ LET req == Arrive("changePassword", [NoArg EXCEPT !.by = by, !.password = cur,
                                                            !.newPassword = new])
              found == FindUserByPk(users, by) IN
          procs' = [procs EXCEPT ![p] =
            IF ~BcryptCompare(cur, Val(found).password)
            THEN Done([req EXCEPT !.loaded = found],
                      Fail("Unauthorized", "Current password is incorrect"))
            ELSE [req EXCEPT !.loaded = found,
                             !.snap = Some([Val(found) EXCEPT
                                              !.password = BcryptHash(new)]),
                             !.pc = "change_save"]]
  /\ reqCount' = reqCount + 1
  /\ UNCHANGED <<now, config, users, invitations, mode,
                 regOk, acceptLog, resetOk, held, verified,
                 notifications, retryLog>>

\* user.save(): the plain password always differs from the loaded hash,
\* so the password column is always written
ChangePasswordSave(p) ==
  /\ procs[p].pc = "change_save"
  /\ LET loaded == Val(procs[p].loaded)
         inst == Val(procs[p].snap) IN
     users' = [users EXCEPT ![loaded.id] =
                 [SaveUser(@, loaded, inst) EXCEPT !.password = inst.password]]
  /\ procs' = Finish(p, Ok(Null))
  /\ UNCHANGED <<now, config, invitations, mode, reqCount,
                 regOk, acceptLog, resetOk, held, verified,
                 notifications, retryLog>>

------------------------------------------------------------------------------
\* AuthService.resendVerificationEmail(email); it never throws

\* The request arrives: User.findOne
ResendFind(p) ==
  /\ CanStart(p)
  /\ \E e \in InputEmails :
       LET req == Arrive("resend", [NoArg EXCEPT !.email = e])
           found == FindUserByEmail(users, ToLowerCase(e)) IN
       procs' = [procs EXCEPT ![p] =
         IF IsNull(found) \/ Val(found).isActive
         THEN Done(req, Ok(Null))
         ELSE [req EXCEPT !.pc = "resend_inv"]]
  /\ reqCount' = reqCount + 1
  /\ UNCHANGED <<now, config, users, invitations, mode,
                 regOk, acceptLog, resetOk, held, verified,
                 notifications, retryLog>>

ReissueFields_KeepsToken(inv, token, t) ==
  [inv EXCEPT !.expiresAt = t + UserInvitationExpiry]

\* resendVerificationEmail's assignments to an expired invitation
ReissueFields(inv, token, t) ==
  [inv EXCEPT !.expiresAt = t + UserInvitationExpiry, !.token = token]

\* Invitation.findOne({where: {email, isAccepted: false}}) has no order:
\* the store may return any matching row.  An expired one gets a new
\* expiry and a new token on the instance; an unexpired one is sent again
\* as it is, and a failed dispatch is logged and swallowed.
ResendFindInvitation(p) ==
  /\ procs[p].pc = "resend_inv"
  /\ LET email == ToLowerCase(procs[p].arg.email)
         m == {i \in DOMAIN invitations :
                 invitations[i].email = email /\ ~invitations[i].isAccepted} IN
     IF m = {}
     THEN procs' = Finish(p, Ok(Null))
     ELSE \E i \in m :
            LET inv == invitations[i] IN
            procs' = IF inv.expiresAt < now
                     THEN [procs EXCEPT
                             ![p].loaded = Some(inv),
                             ![p].snap = Some(ReissueFields(inv, procs[p].rid, now)),
                             ![p].pc = "resend_save"]
                     ELSE [Finish(p, Ok(Null)) EXCEPT ![p].loaded = Some(inv)]
  /\ UNCHANGED <<now, config, users, invitations, mode, reqCount,
                 regOk, acceptLog, resetOk, held, verified,
                 notifications, retryLog>>

\* invitation.save(), then the POST to the notification service, whose
\* failure is logged and swallowed
ResendSave(p) ==
  /\ procs[p].pc = "resend_save"
  /\ LET loaded == Val(procs[p].loaded)
         inst == Val(procs[p].snap) IN
     invitations' = [invitations EXCEPT ![loaded.id] = SaveInvitation(@, loaded, inst)]
  /\ \E delivered \in BOOLEAN : procs' = Finish(p, Ok(Null))
  /\ UNCHANGED <<now, config, users, mode, reqCount,
                 regOk, acceptLog, resetOk, held, verified,
                 notifications, retryLog>>

------------------------------------------------------------------------------
\* AuthService.refreshToken(refreshToken), AuthService.validateToken(token)
\* and the gateway's tokenValidationMiddleware, which calls validateToken
\* through POST /validate-token.  Each makes one store access.

\* A refresh token this deployment signed for a user whose row is gone (the
\* service itself never deletes a user), and a token signed with a key
\* the deployment does not use
OrphanRefreshToken ==
  GenerateRefreshToken([id |-> 0, email |-> "", role |-> ""], config, 0, 0)
ForgedToken ==
  JwtSign([sub |-> 1, email |-> Null, role |-> Some("admin"), type |-> "access",
           jti |-> Null], "k0", MaxTime + 1, 0)

\* The tokens a client can present: those issued so far, and the two above
JwtInputs == {h.token : h \in held} \cup {OrphanRefreshToken, ForgedToken}

RefreshToken(p) ==
  /\ CanStart(p)
  /\ \E tk \in JwtInputs :
       LET req == Arrive("refresh", [NoArg EXCEPT !.jwt = Some(tk)])
           decoded == VerifyRefreshToken(tk, config, now)
           found == IF decoded.ok THEN FindUserByPk(users, Val(decoded.claims).sub)
                    ELSE Null IN
       IF ~decoded.ok
       THEN /\ procs' = [procs EXCEPT ![p] = Done(req, Fail(decoded.kind, decoded.msg))]
            /\ held' = held
       ELSE IF IsNull(found)
       THEN /\ procs' = [procs EXCEPT ![p] = Done(req, Fail("Unauthorized", "Invalid token"))]
            /\ held' = held
       ELSE LET pair == GenerateTokens(Val(found), config, now, req.rid) IN
            /\ procs' = [procs EXCEPT ![p] =
                           Done([req EXCEPT !.loaded = found], Ok(Some(pair)))]
            /\ held' = held \cup Issued(TokenSubject(Val(found)), pair)
  /\ reqCount' = reqCount + 1
  /\ UNCHANGED <<now, config, users, invitations, mode,
                 regOk, acceptLog, resetOk, verified,
                 notifications, retryLog>>

\* The object validateToken returns
InvalidToken(reason) ==
  [valid |-> FALSE, type |-> "", userId |-> 0, role |-> Null, reason |-> reason]
ValidToken(type, userId, role) ==
  [valid |-> TRUE, type |-> type, userId |-> userId, role |-> role, reason |-> ""]

\* validateToken: verifyAccessToken first; only when that throws,
\* verifyRefreshToken
ValidateTokenResult(tk, us, cfg, t) ==
  LET a == VerifyAccessToken(tk, cfg, t)
      r == VerifyRefreshToken(tk, cfg, t) IN
  IF a.ok
  THEN LET user == FindUserByPk(us, Val(a.claims).sub) IN
       IF IsNull(user) \/ ~Val(user).isActive
       THEN InvalidToken("User not found or inactive")
       ELSE ValidToken("access", Val(a.claims).sub, Val(a.claims).role)
  ELSE IF r.ok
  THEN LET user == FindUserByPk(us, Val(r.claims).sub) IN
       IF IsNull(user)
       THEN InvalidToken("User not found")
       ELSE ValidToken("refresh", Val(r.claims).sub, Null)
  ELSE InvalidToken("Invalid token")

ValidateToken(p) ==
  /\ CanStart(p)
  /\ \E tk \in JwtInputs :
       LET req == Arrive("validateToken", [NoArg EXCEPT !.jwt = Some(tk)]) IN
       procs' = [procs EXCEPT ![p] =
                   Done(req, OkData(ValidateTokenResult(tk, users, config, now)))]
  /\ reqCount' = reqCount + 1
  /\ UNCHANGED <<now, config, users, invitations, mode,
                 regOk, acceptLog, resetOk, held, verified,
                 notifications, retryLog>>

\* tokenValidationMiddleware: the controller answers 401 for valid = false,
\* which axios throws; otherwise req.user = {id, role} and next()
GatewayValidate(p) ==
  /\ CanStart(p)
  /\ \E tk \in JwtInputs :
       LET req == Arrive("gateway", [NoArg EXCEPT !.jwt = Some(tk)])
           v == ValidateTokenResult(tk, users, config, now) IN
       procs' = [procs EXCEPT ![p] =
                   IF v.valid
                   THEN Done(req, OkData([id |-> v.userId, role |-> v.role]))
                   ELSE Done(req, Fail("Unauthorized", "Token validation failed"))]
  /\ reqCount' = reqCount + 1
  /\ UNCHANGED <<now, config, users, invitations, mode,
                 regOk, acceptLog, resetOk, held, verified,
                 notifications, retryLog>>

------------------------------------------------------------------------------
\* The authenticate middleware of the auth service, in front of
\* GET /users/profile, whose controller returns req.user

\* Authorization header: absent (""), of another scheme, or Bearer <token>
Schemes == {"", "Basic", "Bearer"}

Admitted(u) == [ok |-> TRUE, kind |-> "ok", msg |-> "", user |-> Some(u)]
Refused(kind, msg) == [ok |-> FALSE, kind |-> kind, msg |-> msg, user |-> Null]

Authenticate_NoTypeCheck(scheme, jwt, us, cfg, t) ==
  IF scheme # "Bearer" THEN Refused("Unauthorized", "Authentication required")
  ELSE LET decoded == VerifyAccessToken(Val(jwt), cfg, t) IN
       IF ~decoded.ok THEN Refused(decoded.kind, decoded.msg)
       ELSE LET user == FindUserByPk(us, Val(decoded.claims).sub) IN
            IF IsNull(user) THEN Refused("Unauthorized", "User not found")
            ELSE IF ~Val(user).isActive
            THEN Refused("Unauthorized", "User account is not active")
            ELSE Admitted(Val(user))

\* authenticate(req, res, next): what it hands to next(), and req.user
Authenticate(scheme, jwt, us, cfg, t) ==
  IF scheme # "Bearer" THEN Refused("Unauthorized", "Authentication required")
  ELSE LET decoded == VerifyAccessToken(Val(jwt), cfg, t) IN
       IF ~decoded.ok THEN Refused(decoded.kind, decoded.msg)
       ELSE IF Val(decoded.claims).type # "access"
       THEN Refused("Unauthorized", "Invalid token type")
       ELSE LET user == FindUserByPk(us, Val(decoded.claims).sub) IN
            IF IsNull(user) THEN Refused("Unauthorized", "User not found")
            ELSE IF ~Val(user).isActive
            THEN Refused("Unauthorized", "User account is not active")
            ELSE Admitted(Val(user))

\* GET /users/profile arrives: authenticate, then getProfile
GetProfile(p) ==
  /\ CanStart(p)
  /\ \E sch \in Schemes, tk \in JwtInputs :
       LET jwt == IF sch = "Bearer" THEN Some(tk) ELSE Null
           req == Arrive("profile", [NoArg EXCEPT !.scheme = sch, !.jwt = jwt])
           a == Authenticate(sch, jwt, users, config, now) IN
       procs' = [procs EXCEPT ![p] =
                   IF a.ok THEN Done(req, OkData(Val(a.user)))
                   ELSE Done(req, Fail(a.kind, a.msg))]
  /\ reqCount' = reqCount + 1
  /\ UNCHANGED <<now, config, users, invitations, mode,
                 regOk, acceptLog, resetOk, held, verified,
                 notifications, retryLog>>

------------------------------------------------------------------------------
\* The notification service: NotificationService.sendNotification behind
\* POST /notifications and NotificationService.retryFailedNotifications
\* behind POST /notifications/retry.  Requests may overlap.

NotifTypes == {"user-invitation", "bogus"}
RetryLimits == {1, 2}
BatchLimit == 10
Recipient == "b@x.com"

\* normalizeType: dash-case to camelCase
NormalizeType(type) == IF type = "user-invitation" THEN "userInvitation" ELSE type

\* emailConfig.templates
Templates == {"adminInvitation", "userInvitation", "processComplete", "passwordReset"}
IsValidNotificationType(type) == NormalizeType(type) \in Templates
TemplateSubject(type) ==
  IF NormalizeType(type) = "userInvitation" THEN "Invitation to Cancer Data Platform"
  ELSE "Admin Invitation to Cancer Data Platform"

\* Notification.create({type, recipient, subject, data}): status defaults
\* to pending, retryCount to 0
NewNotification(id, type, recipient, subject) ==
  [id |-> id, type |-> type, recipient |-> recipient, subject |-> subject,
   status |-> "pending", sentAt |-> Null, errorMessage |-> Null,
   messageId |-> Null, retryCount |-> 0]

NotificationFields == {"type", "recipient", "subject", "status", "sentAt",
                       "errorMessage", "messageId", "retryCount"}
\* notification.save(): the changed attributes, by primary key
SaveNotification(row, loaded, inst) ==
  [f \in DOMAIN row |->
     IF f \in NotificationFields /\ inst[f] # loaded[f] THEN inst[f] ELSE row[f]]

\* sendNotification's assignments after emailService.sendEmail returned
MarkSent(n, t, messageId) ==
  [n EXCEPT !.status = "sent", !.sentAt = Some(t), !.messageId = Some(messageId)]

\* The catch block's assignments to arguments[3]
MarkFailed(n, message) ==
  [n EXCEPT !.status = "failed", !.errorMessage = Some(message),
            !.retryCount = @ + 1]

\* findAll({where: {status: 'failed', retryCount < maxRetries},
\*          order: createdAt ASC, limit: 10})
FindFailed(ns, maxRetries) ==
  LET m == SelectSeq(ns, LAMBDA n : n.status = "failed" /\ n.retryCount < maxRetries) IN
  IF Len(m) > BatchLimit THEN SubSeq(m, 1, BatchLimit) ELSE m

\* The fourth argument of this call of sendNotification: the failed
\* notification the retry loop passes, and nothing for a plain send
Existing(p) == IF procs[p].op = "retry" THEN Some(Head(procs[p].batch)) ELSE Null

\* POST /notifications arrives: the type is validated and the record is
\* created.  A plain send has no arguments[3]: its catch block updates
\* nothing.
SendNotificationCreate(p) ==
  /\ CanStart(p)
  /\ mode = "notif"
  /\ \E ty \in NotifTypes :
       LET req == Arrive("send", [NoArg EXCEPT !.type = ty, !.email = Recipient])
           row == NewNotification(Len(notifications) + 1, ty, Recipient,
                                  TemplateSubject(ty)) IN
       IF IsValidNotificationType(ty)
       THEN /\ notifications' = Append(notifications, row)
            /\ procs' = [procs EXCEPT ![p] =
                 [req EXCEPT !.loaded = Some(row), !.snap = Some(row), !.pc = "n_email"]]
       ELSE /\ notifications' = notifications
            /\ procs' = [procs EXCEPT ![p] =
                 Done(req, Fail("Validation", "Invalid notification type"))]
  /\ reqCount' = reqCount + 1
  /\ UNCHANGED <<now, config, users, invitations, mode,
                 regOk, acceptLog, resetOk, held, verified, retryLog>>

\* emailService.sendEmail returns a messageId or throws INTERNAL.  On a
\* throw the catch block runs: with arguments[3] it goes on to mark that
\* notification, without it it rethrows at once.
SendEmail(p) ==
  /\ procs[p].pc = "n_email"
  /\ \E delivered \in BOOLEAN :
       /\ procs' =
            IF delivered
            THEN [procs EXCEPT ![p].snap = Some(MarkSent(Val(@), now, procs[p].rid)),
                               ![p].pc = "n_save"]
            ELSE IF IsNull(Existing(p))
            THEN Finish(p, Fail("Internal", "Failed to send email"))
            ELSE [procs EXCEPT ![p].pc = "n_fail_save"]
       /\ retryLog' =
            IF IsNull(Existing(p)) THEN retryLog
            ELSE Append(retryLog, [id |-> Val(Existing(p)).id,
                                   limit |-> procs[p].arg.maxRetries,
                                   ok |-> delivered])
  /\ UNCHANGED <<now, config, users, invitations, mode, reqCount,
                 regOk, acceptLog, resetOk, held, verified, notifications>>

\* The retry loop goes on to its next notification, or returns successCount
NextInBatch(p, count) ==
  LET rest == Tail(procs[p].batch)
      q == [procs[p] EXCEPT !.batch = rest, !.count = count,
                            !.snap = Null, !.loaded = Null] IN
  [procs EXCEPT ![p] = IF rest = <<>> THEN Done(q, OkData(count))
                       ELSE [q EXCEPT !.pc = "r_create"]]

\* notification.save() of the record this call created, now sent
NotificationSave(p) ==
  /\ procs[p].pc = "n_save"
  /\ LET loaded == Val(procs[p].loaded)
         inst == Val(procs[p].snap) IN
     /\ notifications' = [notifications EXCEPT
                            ![loaded.id] = SaveNotification(@, loaded, inst)]
     /\ procs' = IF IsNull(Existing(p))
                 THEN Finish(p, OkData(inst))
                 ELSE NextInBatch(p, procs[p].count + 1)
  /\ UNCHANGED <<now, config, users, invitations, mode, reqCount,
                 regOk, acceptLog, resetOk, held, verified, retryLog>>

\* The catch block with arguments[3]: the notification the retry loop
\* passed is marked failed and saved; the loop swallows the rethrown error
NotificationFailSave(p) ==
  /\ procs[p].pc = "n_fail_save"
  /\ LET existing == Val(Existing(p))
         message == IF IsNull(procs[p].snap) THEN "Invalid notification type"
                    ELSE "Failed to send email"
         inst == MarkFailed(existing, message) IN
     notifications' = [notifications EXCEPT
                         ![existing.id] = SaveNotification(@, existing, inst)]
  /\ procs' = NextInBatch(p, procs[p].count)
  /\ UNCHANGED <<now, config, users, invitations, mode, reqCount,
                 regOk, acceptLog, resetOk, held, verified, retryLog>>

\* POST /notifications/retry arrives: findAll
RetryFind(p) ==
  /\ CanStart(p)
  /\ mode = "notif"
  /\ \E m \in RetryLimits :
       LET req == Arrive("retry", [NoArg EXCEPT !.maxRetries = m])
           found == FindFailed(notifications, m) IN
       procs' = [procs EXCEPT ![p] =
                   IF found = <<>> THEN Done(req, OkData(0))
                   ELSE [req EXCEPT !.batch = found, !.pc = "r_create"]]
  /\ reqCount' = reqCount + 1
  /\ UNCHANGED <<now, config, users, invitations, mode,
                 regOk, acceptLog, resetOk, held, verified, notifications, retryLog>>

\* The loop calls sendNotification(type, recipient, data, notification):
\* the type is validated and a record is created, as for every send
RetryCreate(p) ==
  /\ procs[p].pc = "r_create"
  /\ LET existing == Head(procs[p].batch)
         row == NewNotification(Len(notifications) + 1, existing.type,
                                existing.recipient, TemplateSubject(existing.type)) IN
     IF IsValidNotificationType(existing.type)
     THEN /\ notifications' = Append(notifications, row)
          /\ procs' = [procs EXCEPT ![p].loaded = Some(row), ![p].snap = Some(row),
                                    ![p].pc = "n_email"]
     ELSE /\ notifications' = notifications
          /\ procs' = [procs EXCEPT ![p].pc = "n_fail_save"]
  /\ UNCHANGED <<now, config, users, invitations, mode, reqCount,
                 regOk, acceptLog, resetOk, held, verified, retryLog>>

------------------------------------------------------------------------------
\* The token service on its own: tokens are issued for users drawn from a
\* bounded set, or presented by a client that built them itself, and are
\* then put to verifyAccessToken and verifyRefreshToken.

TokenUsers == {[id |-> 1, email |-> "admin@x.com", role |-> "admin"],
               [id |-> 2, email |-> "b@x.com", role |-> "user"]}

PresentedTokens ==
  {[sub |-> 1, email |-> Null, role |-> r, type |-> ty, jti |-> Null,
    iss |-> is, aud |-> Audience, iat |-> 0, exp |-> e, sig |-> k] :
      r \in {Null, Some("user")}, ty \in {"access", "refresh"},
      is \in {Issuer, "other"}, e \in {1, MaxTime + 1}, k \in Keys}

NoVerdict == [fn |-> "none", of |-> Null, at |-> 0, out |-> Thrown("none", "")]

TokIssuePair ==
  /\ reqCount < MaxTokenOps
  /\ \E u \in TokenUsers :
       held' = Issued(u, GenerateTokens(u, config, now, reqCount + 1))
  /\ verified' = NoVerdict
  /\ reqCount' = reqCount + 1
  /\ UNCHANGED <<now, config, users, invitations, procs, mode,
                 regOk, acceptLog, resetOk,
                 notifications, retryLog>>

TokPresent ==
  /\ reqCount < MaxTokenOps
  /\ \E tk \in PresentedTokens : held' = {Presented(tk)}
  /\ verified' = NoVerdict
  /\ reqCount' = reqCount + 1
  /\ UNCHANGED <<now, config, users, invitations, procs, mode,
                 regOk, acceptLog, resetOk,
                 notifications, retryLog>>

TokVerifyAccess ==
  /\ \E h \in held :
       verified' = [fn |-> "verifyAccessToken", of |-> Some(h), at |-> now,
                    out |-> VerifyAccessToken(h.token, config, now)]
  /\ UNCHANGED <<now, config, users, invitations, procs, mode, reqCount,
                 regOk, acceptLog, resetOk, held,
                 notifications, retryLog>>

TokVerifyRefresh ==
  /\ \E h \in held :
       verified' = [fn |-> "verifyRefreshToken", of |-> Some(h), at |-> now,
                    out |-> VerifyRefreshToken(h.token, config, now)]
  /\ UNCHANGED <<now, config, users, invitations, procs, mode, reqCount,
                 regOk, acceptLog, resetOk, held,
                 notifications, retryLog>>

------------------------------------------------------------------------------
\* The deployment's two signing secrets come from the environment; nothing
\* in the service requires them to differ.
Configs == {[secret |-> "k1", refreshSecret |-> k] : k \in Keys}

\* The store of a deployment whose administrator registered through the
\* bootstrap invitation with password Pw1, asked for a reset link 45
\* minutes before the instant 0 and did not use it, logged in at the
\* instant 0 and has since mistyped the password n times.
SeededUsers(n) ==
  <<[NewUser(1, AdminEmail, "Pw1", "admin") EXCEPT
       !.failedLoginAttempts = n, !.lastLogin = Some(0),
       !.passwordResetToken = Some(SeededResetToken),
       !.passwordResetExpires = Some(ResetExpiry - 3)]>>
SeededInvitations ==
  <<[NewInvitation(1, AdminEmail, -1, "admin", AdminInvitationExpiry - 4, Null)
       EXCEPT !.isAccepted = TRUE, !.acceptedAt = Some(-4)]>>
\* The pair that login at the instant 0 returned
SeededHeld(cfg) ==
  Issued(TokenSubject(SeededUsers(0)[1]), GenerateTokens(SeededUsers(0)[1], cfg, 0, -3))

\* The store right after the first start: initializeAdmin has created the
\* bootstrap invitation and nobody has registered yet
BootstrapInvitations ==
  <<NewInvitation(1, AdminEmail, -1, "admin", AdminInvitationExpiry, Null)>>

\* The store of a deployment whose first registration lost the acceptance
\* write after User.create, whose administrator was then deactivated, and
\* whose bootstrap invitation has since expired
StaleUsers == <<[NewUser(1, AdminEmail, "Pw1", "admin") EXCEPT !.isActive = FALSE]>>
StaleInvitations == <<NewInvitation(1, AdminEmail, -1, "admin", -1, Null)>>

\* Nothing is in flight at the instant 0
InitIdle ==
  /\ now = 0
  /\ config \in Configs
  /\ procs = [p \in Procs |-> IdleProc]
  /\ reqCount = 0
  /\ regOk = <<>>
  /\ acceptLog = <<>>
  /\ resetOk = <<>>
  /\ verified = NoVerdict
  /\ retryLog = <<>>

\* The store is empty (first start), holds the bootstrap invitation, is
\* seeded one failure short of the lock, or is stale
InitStore ==
  /\ InitIdle
  /\ notifications = <<>>
  /\ \/ users = <<>> /\ invitations = <<>> /\ held = {}
     \/ users = <<>> /\ invitations = BootstrapInvitations /\ held = {}
     \/ /\ users = SeededUsers(LockThreshold - 1)
        /\ invitations = SeededInvitations
        /\ held = SeededHeld(config)
     \/ users = StaleUsers /\ invitations = StaleInvitations /\ held = {}

\* The store of a deployment in which the administrator and one invited
\* user have registered
TeamUsers ==
  <<NewUser(1, AdminEmail, "Pw1", "admin"), NewUser(2, "b@x.com", "Pw1", "user")>>
TeamInvitations ==
  <<[NewInvitation(1, AdminEmail, -1, "admin", AdminInvitationExpiry - 4, Null)
       EXCEPT !.isAccepted = TRUE, !.acceptedAt = Some(-4)],
    [NewInvitation(2, "b@x.com", -5, "user", UserInvitationExpiry - 2, Some(1))
       EXCEPT !.isAccepted = TRUE, !.acceptedAt = Some(-1)]>>
InitTeam ==
  /\ InitIdle
  /\ notifications = <<>>
  /\ users = TeamUsers /\ invitations = TeamInvitations /\ held = {}

Init == (InitStore \/ InitTeam) /\ mode = "seq"
\* Interleavings are explored for a deployment whose two secrets differ
ConcInit == InitStore /\ config.secret # config.refreshSecret /\ mode = "conc"
TokenInit == InitStore /\ users = <<>> /\ invitations = <<>> /\ mode = "token"

\* The notifications table is empty, or holds two notifications of status
\* failed, the second of which has been retried once
SeededNotifications ==
  <<[NewNotification(1, "user-invitation", Recipient, TemplateSubject("user-invitation"))
       EXCEPT !.status = "failed", !.errorMessage = Some("Failed to send email")],
    [NewNotification(2, "user-invitation", Recipient, TemplateSubject("user-invitation"))
       EXCEPT !.status = "failed", !.errorMessage = Some("Failed to send email"),
              !.retryCount = 1]>>
NotifInit ==
  /\ InitIdle
  /\ config.refreshSecret = "k2"
  /\ users = <<>> /\ invitations = <<>> /\ held = {}
  /\ mode = "notif"
  /\ notifications \in {<<>>, SeededNotifications}

Next ==
  \/ Tick
  \/ \E p \in Procs : LoginFind(p)
  \/ \E p \in Procs : LoginFail(p)
  \/ \E p \in Procs : LoginReset(p)
  \/ \E p \in Procs : RegisterFind(p)
  \/ \E p \in Procs : RegisterCreate(p)
  \/ \E p \in Procs : RegisterAccept(p)
  \/ \E p \in Procs : InitAdminCheck(p)
  \/ \E p \in Procs : InitAdminFind(p)
  \/ \E p \in Procs : InitAdminCreate(p)
  \/ \E p \in Procs : InviteFindUser(p)
  \/ \E p \in Procs : InviteFindInvitation(p)
  \/ \E p \in Procs : InviteCreate(p)
  \/ \E p \in Procs : InviteSend(p)
  \/ \E p \in Procs : ForgotFind(p)
  \/ \E p \in Procs : ForgotSave(p)
  \/ \E p \in Procs : ForgotSend(p)
  \/ \E p \in Procs : ResetFind(p)
  \/ \E p \in Procs : ResetSave(p)
  \/ \E p \in Procs : UpdateUserFind(p)
  \/ \E p \in Procs : UpdateUserSave(p)
  \/ \E p \in Procs : ChangePasswordFind(p)
  \/ \E p \in Procs : ChangePasswordSave(p)
  \/ \E p \in Procs : ResendFind(p)
  \/ \E p \in Procs : ResendFindInvitation(p)
  \/ \E p \in Procs : ResendSave(p)
  \/ \E p \in Procs : RefreshToken(p)
  \/ \E p \in Procs : ValidateToken(p)
  \/ \E p \in Procs : GatewayValidate(p)
  \/ \E p \in Procs : GetProfile(p)

NotifNext ==
  \/ \E p \in Procs : SendNotificationCreate(p)
  \/ \E p \in Procs : SendEmail(p)
  \/ \E p \in Procs : NotificationSave(p)
  \/ \E p \in Procs : NotificationFailSave(p)
  \/ \E p \in Procs : RetryFind(p)
  \/ \E p \in Procs : RetryCreate(p)

TokenNext ==
  \/ Tick
  \/ TokIssuePair
  \/ TokPresent
  \/ TokVerifyAccess
  \/ TokVerifyRefresh

Spec == Init /\ [][Next]_vars
ConcSpec == ConcInit /\ [][Next]_vars
TokenSpec == TokenInit /\ [][TokenNext]_vars
NotifSpec == NotifInit /\ [][NotifNext]_vars


(***************************************************************************)
(* Properties                                                              *)
(***************************************************************************)
\* A request op of process p returns in this step
Returns(p, op) ==
  /\ procs'[p].op = op /\ procs'[p].pc = "done"
  /\ procs[p].pc # "done" \/ reqCount' # reqCount
LoginReturns(p) == Returns(p, "login")

\* A request op arrives on process p in this step
Arrives(p, op) ==
  /\ reqCount' = reqCount + 1
  /\ Resting(p) /\ \A q \in Procs : q < p => ~Resting(q)
  /\ procs'[p].op = op

RegisterReturns(p) == Returns(p, "register")
ResetReturns(p) == Returns(p, "reset")
Finished(p, op) == procs[p].op = op /\ procs[p].pc = "done"

Count(log, x) == Cardinality({i \in DOMAIN log : log[i] = x})
UserHolds(email) == \E i \in DOMAIN users : users[i].email = email
ActiveInvitationHolds(email) ==
  \E j \in DOMAIN invitations :
    /\ invitations[j].email = email
    /\ ~invitations[j].isAccepted
    /\ invitations[j].expiresAt > now

\* C1: the failed login that brings failedLoginAttempts to 5 locks the
\* account until 30 minutes after that failure, and as long as
\* lockedUntil lies in the future no step changes it: the account stays
\* locked for the whole window and a further attempt inside the window
\* does not extend it.  (One request at a time.)
C1_LockoutWindowFixed ==
  [][\A i \in DOMAIN users :
       /\ ( /\ users[i].failedLoginAttempts = LockThreshold - 1
            /\ users'[i].failedLoginAttempts = LockThreshold )
          => users'[i].lockedUntil = Some(now + LockCooldown)
       /\ ( /\ ~IsNull(users[i].lockedUntil)
            /\ Val(users[i].lockedUntil) > now )
          => users'[i].lockedUntil = users[i].lockedUntil]_vars

\* A login was just turned away as locked, strictly inside the window of
\* the lock that the 5th failure set
C1_Witness ==
  \E p \in Procs :
    /\ procs[p].op = "login" /\ procs[p].pc = "done"
    /\ procs[p].res.msg = "Account is locked"
    /\ \E i \in DOMAIN users :
         /\ users[i].failedLoginAttempts = LockThreshold
         /\ users[i].lockedUntil = Some(now + 1)
         /\ procs[p].loaded = Some(users[i])

\* C2: when Login succeeds, the stored user has failedLoginAttempts = 0,
\* lockedUntil = null and lastLogin = the time of the login, whatever the
\* counter and the lock were before.  (One request at a time.)
C2_SuccessResetsLockout ==
  [][\A p \in Procs :
       (LoginReturns(p) /\ procs'[p].res.kind = "ok")
       => LET id == Val(procs'[p].loaded).id IN
          /\ users'[id].failedLoginAttempts = 0
          /\ users'[id].lockedUntil = Null
          /\ users'[id].lastLogin = Some(now)]_vars

\* A login succeeded on a user it had read with 5 failures and an
\* expired lock
C2_Witness ==
  \E p \in Procs :
    /\ procs[p].op = "login" /\ procs[p].pc = "done" /\ procs[p].res.kind = "ok"
    /\ Val(procs[p].loaded).failedLoginAttempts >= LockThreshold
    /\ ~IsNull(Val(procs[p].loaded).lockedUntil)
    /\ users[Val(procs[p].loaded).id].failedLoginAttempts = 0


\* C3: an invitation token completes Register at most once: no token is
\* logged twice as registered, and a Register carrying a token that already
\* completed one fails with Unauthorized and leaves the users table as it
\* was.  (One request at a time.)
C3_TokenRegistersOnce ==
  /\ [](\A i, j \in DOMAIN regOk : regOk[i] = regOk[j] => i = j)
  /\ [][\A p \in Procs :
          (RegisterReturns(p) /\ procs'[p].arg.token \in Range(regOk))
          => /\ procs'[p].res.kind = "Unauthorized"
             /\ users' = users]_vars

\* A Register with an already used token was just refused
C3_Witness ==
  \E p \in Procs :
    /\ Finished(p, "register")
    /\ procs[p].arg.token \in Range(regOk)
    /\ procs[p].res.kind = "Unauthorized"

\* C4: under interleaved Register requests no invitation token registers
\* twice, no invitation has its acceptance written twice, no two users
\* share an email, and every token that registered has its invitation
\* accepted by exactly one write.
C4_ConcurrentRegisterOneWinner ==
  /\ \A i, j \in DOMAIN regOk : regOk[i] = regOk[j] => i = j
  /\ \A i \in DOMAIN invitations : Count(acceptLog, i) <= 1
  /\ \A i, j \in DOMAIN users : users[i].email = users[j].email => i = j
  /\ \A i \in DOMAIN invitations :
       invitations[i].token \in Range(regOk)
       => invitations[i].isAccepted /\ Count(acceptLog, i) = 1

\* Two Register requests read the same active invitation; one returned
\* its user and tokens, the other failed
C4_Witness ==
  \E p, q \in Procs :
    /\ p # q
    /\ Finished(p, "register") /\ Finished(q, "register")
    /\ ~IsNull(procs[p].loaded) /\ procs[p].loaded = procs[q].loaded
    /\ procs[p].res.kind = "ok" /\ ~IsNull(procs[p].res.tokens)
    /\ procs[q].res.kind = "Internal"

\* C5 (as claimed): once a Register call that resolved an invitation has
\* returned, with a result or an error, the user for the invitation's
\* email exists if and only if the invitation is accepted.
C5_RegisterAtomic ==
  \A p \in Procs :
    (Finished(p, "register") /\ ~IsNull(procs[p].loaded))
    => LET inv == invitations[Val(procs[p].loaded).id] IN
       UserHolds(inv.email) <=> inv.isAccepted

\* C6 (as claimed): verifyAccessToken rejects every token of type refresh
\* and verifyRefreshToken rejects every token of type access.
C6_TokenTypeGuard ==
  /\ (verified.fn = "verifyAccessToken" /\ Val(verified.of).token.type = "refresh")
     => ~verified.out.ok
  /\ (verified.fn = "verifyRefreshToken" /\ Val(verified.of).token.type = "access")
     => ~verified.out.ok

\* C7: a token of the pair generateTokens(user) returned, verified by its
\* own verifier before it expires, is accepted and decodes to sub = user.id;
\* the access claims carry the user's role and type access, the refresh
\* claims type refresh.
C7_IssueVerifyRoundTrip ==
  LET h == Val(verified.of)
      c == Val(verified.out.claims) IN
  /\ ( /\ verified.fn = "verifyAccessToken"
       /\ h.origin = "generateAccessToken"
       /\ verified.at < h.token.exp )
     => /\ verified.out.ok
        /\ c.sub = Val(h.user).id
        /\ c.role = Some(Val(h.user).role)
        /\ c.type = "access"
  /\ ( /\ verified.fn = "verifyRefreshToken"
       /\ h.origin = "generateRefreshToken"
       /\ verified.at < h.token.exp )
     => /\ verified.out.ok
        /\ c.sub = Val(h.user).id
        /\ c.type = "refresh"

\* A refresh token issued earlier was verified, still unexpired, and accepted
C7_Witness ==
  /\ verified.fn = "verifyRefreshToken"
  /\ Val(verified.of).origin = "generateRefreshToken"
  /\ verified.at > Val(verified.of).token.iat
  /\ verified.out.ok
  /\ Val(verified.out.claims).sub = Val(Val(verified.of).user).id

\* C8: a reset token is single-use: no token is logged twice as consumed,
\* and a ResetPassword carrying a token that already reset a password fails
\* with Unauthorized and changes no row.  (One request at a time.)
C8_ResetTokenSingleUse ==
  /\ [](\A i, j \in DOMAIN resetOk : resetOk[i] = resetOk[j] => i = j)
  /\ [][\A p \in Procs :
          (ResetReturns(p) /\ procs'[p].arg.token \in Range(resetOk))
          => /\ procs'[p].res.kind = "Unauthorized"
             /\ users' = users
             /\ invitations' = invitations]_vars

\* A ResetPassword with an already consumed token was just refused
C8_Witness ==
  \E p \in Procs :
    /\ Finished(p, "reset")
    /\ procs[p].arg.token \in Range(resetOk)
    /\ procs[p].res.kind = "Unauthorized"

\* C9: a Login with the correct password returns, for a user whose
\* lockedUntil lies in the future, Unauthorized with the locked message and
\* no tokens; for a user whose lockedUntil has passed, a token pair.
\* (One request at a time.)
C9_LockedThenReleased ==
  [][\A p \in Procs : \A i \in DOMAIN users :
       ( /\ LoginReturns(p)
         /\ users[i].email = ToLowerCase(procs'[p].arg.email)
         /\ users[i].password = BcryptHash(procs'[p].arg.password)
         /\ ~IsNull(users[i].lockedUntil) )
       => /\ Val(users[i].lockedUntil) > now
             => /\ procs'[p].res.kind = "Unauthorized"
                /\ procs'[p].res.msg = "Account is locked"
                /\ IsNull(procs'[p].res.tokens)
          /\ Val(users[i].lockedUntil) < now
             => /\ procs'[p].res.kind = "ok"
                /\ ~IsNull(procs'[p].res.tokens)]_vars

\* A login went through and returned tokens for a user it had read with a
\* lock whose cooldown was over
C9_Witness ==
  \E p \in Procs :
    /\ Finished(p, "login")
    /\ procs[p].res.kind = "ok" /\ ~IsNull(procs[p].res.tokens)
    /\ ~IsNull(Val(procs[p].loaded).lockedUntil)
    /\ Val(Val(procs[p].loaded).lockedUntil) < now

\* C10: inviteUser, which the controller calls for an admin, for an email
\* that a user or an active invitation holds goes no further than its two
\* lookups, creates no invitation and fails with Conflict (at the first
\* lookup if a user holds the email, at the second otherwise); it never
\* reaches Invitation.create for such an email.
\* (One request at a time.)
C10_InviteConflict ==
  /\ [](\A p \in Procs :
          (procs[p].op = "invite" /\ procs[p].pc = "invite_create")
          => LET e == ToLowerCase(procs[p].arg.email) IN
             ~UserHolds(e) /\ ~ActiveInvitationHolds(e))
  /\ [][\A p \in Procs :
          LET e == ToLowerCase(procs'[p].arg.email) IN
          ( /\ procs'[p].op = "invite"
            /\ users[procs'[p].arg.by].role = "admin"
            /\ reqCount' # reqCount \/ procs[p].pc = "invite_inv"
            /\ procs'[p] # procs[p]
            /\ UserHolds(e) \/ ActiveInvitationHolds(e) )
          => /\ invitations' = invitations
             /\ \/ reqCount' # reqCount /\ ~UserHolds(e) /\ procs'[p].pc = "invite_inv"
                \/ procs'[p].pc = "done" /\ procs'[p].res.kind = "Conflict"]_vars

\* An invitation was just refused with Conflict while another invitation
\* for an email is still active
C10_Witness ==
  \E p \in Procs :
    /\ Finished(p, "invite")
    /\ procs[p].res.kind = "Conflict"
    /\ procs[p].res.msg = "Active invitation already exists"
    /\ \E j \in DOMAIN invitations : ActiveInvitationHolds(invitations[j].email)

\* C11: a Register whose token belongs to an invitation with expiresAt not
\* later than now fails with Unauthorized, inserts no user and leaves the
\* invitations table, the expired invitation included, as it was.
\* (One request at a time.)
C11_ExpiredTokenRejected ==
  [][\A p \in Procs :
       ( /\ RegisterReturns(p)
         /\ \E i \in DOMAIN invitations :
              /\ invitations[i].token = procs'[p].arg.token
              /\ invitations[i].expiresAt <= now )
       => /\ procs'[p].res.kind = "Unauthorized"
          /\ users' = users
          /\ invitations' = invitations]_vars

\* A Register was just refused for a pending invitation at the very
\* instant of its expiry, and no user holds the invitation's email
C11_Witness ==
  \E p \in Procs, i \in DOMAIN invitations :
    /\ Finished(p, "register")
    /\ procs[p].res.kind = "Unauthorized"
    /\ invitations[i].token = procs[p].arg.token
    /\ ~invitations[i].isAccepted
    /\ invitations[i].expiresAt = now
    /\ ~UserHolds(invitations[i].email)

\* C12 (as claimed): every ForgotPassword call returns the same
\* success-shaped outcome: for an unknown email, for a known one, and when
\* the dispatch of the reset-link notification fails.
C12_ForgotAlwaysSucceeds ==
  \A p \in Procs : Finished(p, "forgot") => procs[p].res = Ok(Null)

\* C13 (as claimed): once inviteUser has created the invitation, the call
\* returns successfully whether or not the invitation email is delivered.
C13_InviteSurvivesDispatchFailure ==
  [][\A p \in Procs :
       (procs[p].pc = "invite_send" /\ procs'[p].pc = "done")
       => /\ procs'[p].res.kind = "ok"
          /\ invitations' = invitations]_vars

\* C14: whatever sequence of ForgotPassword, ResetPassword, Login,
\* Register, updateUser and changePassword requests has run, one at a
\* time, every user has passwordResetToken and passwordResetExpires both
\* set or both null.
C14_ResetPairTogether ==
  \A i \in DOMAIN users :
    IsNull(users[i].passwordResetToken) <=> IsNull(users[i].passwordResetExpires)

\* A user who already reset the password once has asked again and holds a
\* token with its expiry
C14_Witness ==
  /\ resetOk # <<>>
  /\ \E p \in Procs, i \in DOMAIN users :
       /\ Finished(p, "forgot")
       /\ ~IsNull(users[i].passwordResetToken)
       /\ users[i].passwordResetExpires = Some(now + ResetExpiry)

\* C15 (as claimed): in every reachable state, interleaved requests
\* included, a user whose lockedUntil is set has failedLoginAttempts >= 5.
C15_LockOnlyAtThreshold ==
  \A i \in DOMAIN users :
    ~IsNull(users[i].lockedUntil) => users[i].failedLoginAttempts >= LockThreshold

\* C16 (as claimed): in every reachable state, interleaved inviteUser and
\* bootstrap calls included, no email has two invitations that are both
\* unaccepted and unexpired.
C16_OneActiveInvitationPerEmail ==
  \A i, j \in DOMAIN invitations :
    ( /\ invitations[i].email = invitations[j].email
      /\ ~invitations[i].isAccepted /\ invitations[i].expiresAt > now
      /\ ~invitations[j].isAccepted /\ invitations[j].expiresAt > now )
    => i = j

\* C17: in every reachable state, interleaved requests included, an
\* invitation has isAccepted = true exactly when acceptedAt is set, and no
\* step takes an accepted invitation back to isAccepted = false.
C17_AcceptanceIrreversible ==
  /\ [](\A i \in DOMAIN invitations :
          invitations[i].isAccepted <=> ~IsNull(invitations[i].acceptedAt))
  /\ [][\A i \in DOMAIN invitations :
          invitations[i].isAccepted
          => i \in DOMAIN invitations' /\ invitations'[i].isAccepted]_vars

\* A registration wrote an acceptance, and a later Register with the same
\* token found the invitation still accepted
C17_Witness ==
  \E p \in Procs, i \in DOMAIN invitations :
    /\ i \in Range(acceptLog)
    /\ invitations[i].isAccepted /\ ~IsNull(invitations[i].acceptedAt)
    /\ Finished(p, "register")
    /\ procs[p].arg.token = invitations[i].token
    /\ procs[p].res.kind = "Unauthorized"

\* C18: a Login that arrives for a user whose lockedUntil lies in the
\* future is refused as locked at once, whatever the password, and the
\* users table stays as it was: no counter increment, no write of
\* lockedUntil or lastLogin.  (One request at a time.)
C18_LockedLoginWritesNothing ==
  [][\A p \in Procs :
       ( /\ Arrives(p, "login")
         /\ \E i \in DOMAIN users :
              /\ users[i].email = ToLowerCase(procs'[p].arg.email)
              /\ ~IsNull(users[i].lockedUntil)
              /\ Val(users[i].lockedUntil) > now )
       => /\ procs'[p].pc = "done"
          /\ procs'[p].res = Fail("Unauthorized", "Account is locked")
          /\ users' = users]_vars

\* A login with the right password was just refused as locked and the
\* stored user is the row it read
C18_Witness ==
  \E p \in Procs, i \in DOMAIN users :
    /\ Finished(p, "login")
    /\ procs[p].res.msg = "Account is locked"
    /\ BcryptCompare(procs[p].arg.password, users[i].password)
    /\ procs[p].loaded = Some(users[i])
    /\ ~IsNull(users[i].lockedUntil) /\ Val(users[i].lockedUntil) > now

\* C19: a Login for an email that no user holds and a Login with a wrong
\* password for an existing, unlocked user return the same error:
\* Unauthorized with the message "Invalid email or password".
\* (One request at a time.)
C19_LoginDoesNotEnumerate ==
  [][\A p \in Procs :
       LET e == ToLowerCase(procs'[p].arg.email)
           pw == procs'[p].arg.password IN
       ( /\ LoginReturns(p)
         /\ \/ ~\E i \in DOMAIN users : users[i].email = e
            \/ \E i \in DOMAIN users :
                 /\ users[i].email = e
                 /\ IsNull(users[i].lockedUntil) \/ Val(users[i].lockedUntil) <= now
                 /\ users[i].password # BcryptHash(pw) )
       => procs'[p].res = Fail("Unauthorized", "Invalid email or password")]_vars

\* A wrong password on an existing, unlocked user was just refused with
\* the generic error and counted
C19_Witness ==
  \E p \in Procs, i \in DOMAIN users :
    /\ Finished(p, "login")
    /\ procs[p].res = Fail("Unauthorized", "Invalid email or password")
    /\ ~IsNull(procs[p].loaded) /\ Val(procs[p].loaded).id = i
    /\ users[i].password # BcryptHash(procs[p].arg.password)
    /\ users[i].failedLoginAttempts = Val(procs[p].loaded).failedLoginAttempts + 1

\* C20 (as claimed): under interleaved Login requests every wrong-password
\* attempt on a user, with no successful login since the attempt read the
\* row, raises the stored failedLoginAttempts by one: no increment is lost.
C20_FailedLoginsAllCounted ==
  [][\A p \in Procs :
       (procs[p].pc = "login_fail" /\ procs'[p].pc = "done")
       => LET loaded == Val(procs[p].loaded) IN
          users[loaded.id].lastLogin = loaded.lastLogin
          => users'[loaded.id].failedLoginAttempts
               = users[loaded.id].failedLoginAttempts + 1]_vars

\* C21 (as claimed): under interleaved ResetPassword requests no reset
\* token succeeds in setting the password more than once.
C21_ConcurrentResetOneWinner ==
  \A i, j \in DOMAIN resetOk : resetOk[i] = resetOk[j] => i = j

\* C22: a RefreshToken call with a refresh token that verifies (signed with
\* the refresh secret, not expired) fails with Unauthorized when no user
\* has the token's subject, and otherwise returns a pair issued now for
\* that user; this holds for every such token in every state, so a token
\* already used, or older than pairs issued since, is still accepted
\* until it expires.  (One request at a time.)
C22_RefreshKeepsOldToken ==
  [][\A p \in Procs :
       Arrives(p, "refresh")
       => LET tk == Val(procs'[p].arg.jwt)
              res == procs'[p].res IN
          ( /\ tk.sig = config.refreshSecret /\ now < tk.exp
            /\ tk.iss = Issuer /\ tk.aud = Audience )
          => IF tk.sub \in DOMAIN users
             THEN /\ res.kind = "ok"
                  /\ Val(res.tokens).accessToken.sub = tk.sub
                  /\ Val(res.tokens).accessToken.exp = now + AccessExpiry
                  /\ Val(res.tokens).refreshToken.sub = tk.sub
                  /\ Val(res.tokens).refreshToken.exp = now + RefreshExpiry
                  /\ Val(res.tokens).refreshToken # tk
                  /\ {h.token : h \in held} \subseteq {h.token : h \in held'}
             ELSE /\ res = Fail("Unauthorized", "Invalid token")
                  /\ held' = held]_vars

\* A refresh token was just accepted although a later refresh token had
\* already been issued for the same user
C22_Witness ==
  \E p \in Procs, h \in held :
    /\ Finished(p, "refresh") /\ procs[p].res.kind = "ok"
    /\ Val(procs[p].arg.jwt).type = "refresh"
    /\ h.token.type = "refresh"
    /\ h.token.sub = Val(procs[p].arg.jwt).sub
    /\ Val(Val(procs[p].arg.jwt).jti) < Val(h.token.jti)
    /\ Val(h.token.jti) < Val(Val(procs[p].res.tokens).refreshToken.jti)

\* The token passes verifyAccessToken / verifyRefreshToken now
PassesAccess(tk) == VerifyAccessToken(tk, config, now).ok
PassesRefresh(tk) == VerifyRefreshToken(tk, config, now).ok
SubjectExists(tk) == tk.sub \in DOMAIN users
SubjectActive(tk) == tk.sub \in DOMAIN users /\ users[tk.sub].isActive

\* C23 (as claimed): validateToken returns the access result exactly when
\* the token passes verifyAccess and its user exists and is active;
\* in every other case it returns the refresh result exactly when the
\* token passes verifyRefresh and its user exists, and valid = false
\* otherwise; it never throws.
C23_ValidateTokenAsClaimed ==
  [][\A p \in Procs :
       Arrives(p, "validateToken")
       => LET tk == Val(procs'[p].arg.jwt)
              asAccess == PassesAccess(tk) /\ SubjectActive(tk)
              asRefresh == ~asAccess /\ PassesRefresh(tk) /\ SubjectExists(tk) IN
          /\ procs'[p].res.kind = "ok"
          /\ Val(procs'[p].res.data) =
               IF asAccess THEN ValidToken("access", tk.sub, tk.role)
               ELSE IF asRefresh THEN ValidToken("refresh", tk.sub, Null)
               ELSE [Val(procs'[p].res.data) EXCEPT !.valid = FALSE]]_vars

\* C24: every step of initializeAdmin leaves the users table alone and,
\* when it ends, ends without an error, also when Invitation.create
\* fails; a run that finds an admin user creates nothing; a run changes
\* the invitations table only by adding one active admin invitation, and
\* only when no admin user and no active invitation for the admin email
\* existed.  (One run at a time.)
C24_BootstrapIdempotent ==
  [][\A p \in Procs :
       ( \/ Arrives(p, "initAdmin")
         \/ procs[p].op = "initAdmin" /\ procs[p].pc # "done" /\ procs'[p] # procs[p] )
       => /\ users' = users
          /\ procs'[p].pc = "done" => procs'[p].res.kind = "ok"
          /\ (\E i \in DOMAIN users : users[i].role = "admin")
             => procs'[p].pc = "done" /\ invitations' = invitations
          /\ invitations' # invitations
             => /\ ~ActiveInvitationHolds(AdminEmail)
                /\ Len(invitations') = Len(invitations) + 1
                /\ SubSeq(invitations', 1, Len(invitations)) = invitations
                /\ LET new == invitations'[Len(invitations')] IN
                   /\ new.email = AdminEmail /\ new.role = "admin"
                   /\ ~new.isAccepted
                   /\ new.expiresAt = now + AdminInvitationExpiry]_vars

\* A second run of initializeAdmin just returned without creating
\* anything: the invitation of the first run is the only one
C24_Witness ==
  \E p \in Procs :
    /\ Finished(p, "initAdmin")
    /\ reqCount = 2
    /\ users = <<>>
    /\ Len(invitations) = 1
    /\ invitations[1].token = 1
    /\ invitations[1].expiresAt > now

\* Some user holds this reset token and its expiry lies in the future
ResetTokenLive(tk) ==
  \E i \in DOMAIN users :
    /\ users[i].passwordResetToken = Some(tk)
    /\ ~IsNull(users[i].passwordResetExpires)
    /\ Val(users[i].passwordResetExpires) > now

\* C25: a ResetPassword whose token no user holds unexpired ends at once
\* with Unauthorized and writes no user row; one whose token is held
\* unexpired goes on to the save, and the save is one write that sets the
\* new password and clears passwordResetToken and passwordResetExpires of
\* the holder and changes nothing else.  (One request at a time.)
C25_ResetOnlyWithLiveToken ==
  [][\A p \in Procs :
       /\ Arrives(p, "reset")
          => LET tk == procs'[p].arg.token IN
             /\ users' = users
             /\ IF ResetTokenLive(tk)
                THEN procs'[p].pc = "reset_save"
                ELSE /\ procs'[p].pc = "done"
                     /\ procs'[p].res.kind = "Unauthorized"
       /\ (procs[p].op = "reset" /\ procs[p].pc = "reset_save" /\ procs'[p] # procs[p])
          => LET id == Val(procs[p].loaded).id IN
             /\ users[id].passwordResetToken = Some(procs[p].arg.token)
             /\ procs'[p].pc = "done" /\ procs'[p].res.kind = "ok"
             /\ users' = [users EXCEPT ![id] =
                            [@ EXCEPT !.password = BcryptHash(procs[p].arg.password),
                                      !.passwordResetToken = Null,
                                      !.passwordResetExpires = Null]]]_vars

\* The seeded reset token was presented at or after its expiry and was
\* refused; the user still holds it
C25_Witness ==
  \E p \in Procs :
    /\ Finished(p, "reset")
    /\ procs[p].arg.token = SeededResetToken
    /\ procs[p].res.kind = "Unauthorized"
    /\ users # <<>>
    /\ users[1].passwordResetToken = Some(SeededResetToken)
    /\ Val(users[1].passwordResetExpires) <= now

\* C26: the step of Register that creates a user appends exactly one row;
\* its email and role are those of the invitation the token belongs to,
\* whatever email and role the caller sent, and it is active
C26_RegisterTakesInvitationData ==
  [][\A p \in Procs :
       (procs[p].op = "register" /\ procs[p].pc = "register_create" /\ users' # users)
       => LET inv == invitations[Val(procs[p].loaded).id]
              new == users'[Len(users')] IN
          /\ Len(users') = Len(users) + 1
          /\ SubSeq(users', 1, Len(users)) = users
          /\ inv.token = procs[p].arg.token
          /\ new.email = inv.email
          /\ new.role = inv.role
          /\ new.isActive]_vars

\* A Register that asked for the admin role on a user invitation has
\* succeeded, and the user it created has the role user
C26_Witness ==
  \E p \in Procs :
    /\ Finished(p, "register")
    /\ procs[p].res.kind = "ok"
    /\ procs[p].arg.role = "admin"
    /\ LET inv == Val(procs[p].loaded) IN
       /\ inv.role = "user"
       /\ \E i \in DOMAIN users :
            /\ users[i].email = inv.email
            /\ users[i].role = "user"
            /\ users[i].isActive

\* C27: a Register whose token is that of an active invitation and whose
\* supplied email, lowercased, is not the invitation's, ends at once with
\* Forbidden; no user row and no invitation row is written, so that the
\* invitation is still the active one of its token
C27_EmailMismatchForbidden ==
  [][\A p \in Procs :
       Arrives(p, "register")
       => LET a == procs'[p].arg
              found == FindActiveByToken(invitations, a.token, now) IN
          (~IsNull(found) /\ a.email # "" /\ ToLowerCase(a.email) # Val(found).email)
          => /\ procs'[p].pc = "done"
             /\ procs'[p].res.kind = "Forbidden"
             /\ users' = users
             /\ invitations' = invitations
             /\ FindActiveByToken(invitations', a.token, now') = found]_vars

\* A Register with another address than the invitation's was refused;
\* the invitation is still active and nobody holds its address
C27_Witness ==
  \E p \in Procs :
    /\ Finished(p, "register")
    /\ procs[p].res.kind = "Forbidden"
    /\ LET found == FindActiveByToken(invitations, procs[p].arg.token, now) IN
       /\ ~IsNull(found)
       /\ ToLowerCase(procs[p].arg.email) # Val(found).email
       /\ ~UserHolds(Val(found).email)

C29_GatewayAdmitsOnlyActiveAccess ==
  [][\A p \in Procs :
       (Arrives(p, "gateway") /\ procs'[p].res.kind = "ok")
       => LET tk == Val(procs'[p].arg.jwt) IN
          /\ tk.type = "access"
          /\ PassesAccess(tk)
          /\ SubjectActive(tk)]_vars

\* C30 (as claimed): Login and RefreshToken return a token pair only for
\* a user who is active
C30_NoTokensForDeactivated ==
  [][\A p \in Procs :
       ((LoginReturns(p) \/ Returns(p, "refresh")) /\ procs'[p].res.kind = "ok")
       => LET sub == Val(procs'[p].res.tokens).accessToken.sub IN
          sub \in DOMAIN users' /\ users'[sub].isActive]_vars

\* C31: an inviteUser request of an authenticated user whose role is not
\* admin ends at once with Forbidden: it never reaches the creation of
\* the invitation or the dispatch, and no invitation row is written
C31_OnlyAdminInvites ==
  [][\A p \in Procs :
       /\ (Arrives(p, "invite") /\ users[procs'[p].arg.by].role # "admin")
          => /\ procs'[p].pc = "done"
             /\ procs'[p].res.kind = "Forbidden"
             /\ invitations' = invitations
       /\ (procs[p].op = "invite" /\ procs[p].pc # "done" /\ procs'[p] # procs[p])
          => users[procs[p].arg.by].role = "admin"]_vars

\* The invited user b asked for an invitation and was refused
C31_Witness ==
  \E p \in Procs :
    /\ Finished(p, "invite")
    /\ procs[p].res.kind = "Forbidden"
    /\ users[procs[p].arg.by].role = "user"
    /\ users[procs[p].arg.by].isActive

\* C32: a request to a route behind authenticate gets req.user, the row of
\* the token's user, exactly when its Authorization header is a Bearer
\* token that passes verifyAccess, has type access and names an existing,
\* active user; every other request is answered Unauthorized and no user
\* is attached
C32_AuthenticateAdmitsActiveAccess ==
  [][\A p \in Procs :
       Arrives(p, "profile")
       => LET a == procs'[p].arg
              good == /\ a.scheme = "Bearer"
                      /\ PassesAccess(Val(a.jwt))
                      /\ Val(a.jwt).type = "access"
                      /\ SubjectActive(Val(a.jwt)) IN
          /\ procs'[p].pc = "done"
          /\ IF good
             THEN /\ procs'[p].res.kind = "ok"
                  /\ procs'[p].res.data = Some(users[Val(a.jwt).sub])
             ELSE /\ procs'[p].res.kind = "Unauthorized"
                  /\ procs'[p].res.data = Null]_vars

\* A refresh token that passes verifyAccess, of an active user, was
\* presented as a Bearer token and refused for its type
C32_Witness ==
  \E p \in Procs :
    /\ Finished(p, "profile")
    /\ procs[p].arg.scheme = "Bearer"
    /\ PassesAccess(Val(procs[p].arg.jwt))
    /\ SubjectActive(Val(procs[p].arg.jwt))
    /\ Val(procs[p].arg.jwt).type = "refresh"
    /\ procs[p].res.kind = "Unauthorized"

\* C33: the passing of time alone writes no user row; a user with a
\* lockedUntil has at least LockThreshold failed attempts on record,
\* whether the lock has elapsed or not; and a wrong-password Login for a
\* user whose lock has elapsed counts one more failure and sets
\* lockedUntil to LockCooldown after the attempt.  (One request at a time.)
C33_ElapsedLockRelocksAtOnce ==
  /\ [](\A i \in DOMAIN users :
          ~IsNull(users[i].lockedUntil) => users[i].failedLoginAttempts >= LockThreshold)
  /\ [][/\ now' # now => users' = users
        /\ \A p \in Procs :
             (procs[p].op = "login" /\ procs[p].pc = "login_fail" /\ procs'[p] # procs[p])
             => LET id == Val(procs[p].loaded).id IN
                (~IsNull(users[id].lockedUntil) /\ Val(users[id].lockedUntil) <= now)
                => /\ users[id].failedLoginAttempts >= LockThreshold
                   /\ users'[id].failedLoginAttempts = users[id].failedLoginAttempts + 1
                   /\ users'[id].lockedUntil = Some(now + LockCooldown)
                   /\ IsAccountLocked(users'[id], now)]_vars

\* A wrong-password Login met a lock that had elapsed, and the account is
\* locked again for the whole cooldown
C33_Witness ==
  \E p \in Procs :
    /\ Finished(p, "login")
    /\ procs[p].res = WrongPasswordError
    /\ ~IsNull(procs[p].loaded)
    /\ LET was == Val(procs[p].loaded) IN
       /\ ~IsNull(was.lockedUntil)
       /\ Val(was.lockedUntil) <= now
       /\ users[was.id].failedLoginAttempts = was.failedLoginAttempts + 1
       /\ users[was.id].lockedUntil = Some(now + LockCooldown)

\* The columns resetPassword assigns
ResetWrites == {"password", "passwordResetToken", "passwordResetExpires"}

\* C34: the save of ResetPassword writes no column of the user other
\* than password, passwordResetToken and passwordResetExpires, and no
\* other row; failedLoginAttempts and lockedUntil stay, so that a user
\* who is locked before the save is locked after it
C34_ResetKeepsLock ==
  [][\A p \in Procs :
       (procs[p].op = "reset" /\ procs[p].pc = "reset_save" /\ procs'[p] # procs[p])
       => LET id == Val(procs[p].loaded).id IN
          /\ DOMAIN users' = DOMAIN users
          /\ \A i \in DOMAIN users : i # id => users'[i] = users[i]
          /\ \A f \in DOMAIN users[id] \ ResetWrites : users'[id][f] = users[id][f]
          /\ users'[id].failedLoginAttempts = users[id].failedLoginAttempts
          /\ users'[id].lockedUntil = users[id].lockedUntil
          /\ IsAccountLocked(users[id], now) => IsAccountLocked(users'[id], now)]_vars

\* A locked user has reset the password and is still locked
C34_Witness ==
  \E p \in Procs :
    /\ Finished(p, "reset")
    /\ procs[p].res.kind = "ok"
    /\ LET id == Val(procs[p].loaded).id IN
       /\ IsAccountLocked(Val(procs[p].loaded), now)
       /\ IsAccountLocked(users[id], now)
       /\ users[id].failedLoginAttempts >= LockThreshold
       /\ users[id].password = BcryptHash(procs[p].arg.password)
       /\ IsNull(users[id].passwordResetToken)

\* C35: the save of ForgotPassword stores a token the user did not hold
\* and an expiry of exactly ResetExpiry (one hour) after the request, and
\* from then on no user holds the token it replaced; a ResetPassword with
\* a token that no user holds is answered Unauthorized and writes nothing.
\* (One request at a time.)
C35_SecondForgotReplacesToken ==
  [][\A p \in Procs :
       /\ (procs[p].op = "forgot" /\ procs[p].pc = "forgot_save" /\ procs'[p] # procs[p])
          => LET id == Val(procs[p].loaded).id
                 old == users[id].passwordResetToken IN
             /\ ~IsNull(users'[id].passwordResetToken)
             /\ users'[id].passwordResetToken # old
             /\ users'[id].passwordResetExpires = Some(now + ResetExpiry)
             /\ ~IsNull(old)
                => /\ \A i \in DOMAIN users' : users'[i].passwordResetToken # old
                   /\ IsNull(FindUserByResetToken(users', Val(old), now))
       /\ Arrives(p, "reset")
          => ((\A i \in DOMAIN users :
                 users[i].passwordResetToken # Some(procs'[p].arg.token))
              => /\ procs'[p].pc = "done"
                 /\ procs'[p].res.kind = "Unauthorized"
                 /\ users' = users)]_vars

\* The seeded reset token, replaced by a second ForgotPassword before its
\* expiry, was presented to ResetPassword and refused; the user holds the
\* newer token, which has not expired
C35_Witness ==
  \E p \in Procs :
    /\ Finished(p, "reset")
    /\ procs[p].arg.token = SeededResetToken
    /\ procs[p].res.kind = "Unauthorized"
    /\ now < ResetExpiry - 3
    /\ users # <<>>
    /\ ~IsNull(users[1].passwordResetToken)
    /\ Val(users[1].passwordResetToken) > 0
    /\ Val(users[1].passwordResetExpires) = now + ResetExpiry

\* The call of sendNotification that created notification i is in flight
InFlight(i) ==
  \E p \in Procs :
    /\ ~Resting(p)
    /\ ~IsNull(procs[p].snap)
    /\ Val(procs[p].snap).id = i

\* C36 (as claimed): a notification is of status pending only while the
\* call of sendNotification that created it is in flight; a notification
\* of status sent has sentAt and messageId, one of status failed has an
\* errorMessage
C36_NoPendingLeft ==
  \A i \in DOMAIN notifications :
    /\ notifications[i].status = "pending" => InFlight(i)
    /\ notifications[i].status = "sent"
       => ~IsNull(notifications[i].sentAt) /\ ~IsNull(notifications[i].messageId)
    /\ notifications[i].status = "failed" => ~IsNull(notifications[i].errorMessage)

\* A step of the retry loop of process p
RetryStep(p) ==
  procs[p].op = "retry" /\ procs[p].pc # "done" /\ procs'[p] # procs[p]

FailedAttempts(id, m) ==
  {k \in DOMAIN retryLog :
     retryLog[k].id = id /\ ~retryLog[k].ok /\ retryLog[k].limit <= m}

====
